---- MODULE Spec2Model ----
(***************************************************************************)
(* Model of the exam-question core of ktds-jinseop:                        *)
(*   - VectorStore            (src/vector_store.py)                        *)
(*   - the exact-mode selector and the generate-mode context gate of       *)
(*     ExamQuestionGenerator  (src/mvp_main.py)                            *)
(*   - InformationValidationAgent                                          *)
(*                            (src/agents/information_validation_agent.py) *)
(*   - question segmentation of PDFProcessor (src/pdf_processor.py) and    *)
(*     of the simplified parser  (src/simple_txt_parser.py)                *)
(* Each component has its own specification (Spec, SelSpec, ValSpec,       *)
(* GenSpec, SegSpec); the variables of the other components stay at their  *)
(* initial values.                                                         *)
(***************************************************************************)
EXTENDS Integers, Sequences, FiniteSets, TLC

VARIABLES
    \* ---- VectorStore ----
    embedding_model,   \* TRUE when the sentence-transformer model is loaded
    index,             \* [none, rows]: the FAISS index (None, or its rows in order)
    documents,         \* self.documents
    metadata,          \* self.metadata
    disk,              \* metadata.json + faiss_index.bin of the persist directory
    clock,             \* datetime.now(), as far as add_user_question's id needs it
    last,              \* the VectorStore call that returned last, with its result
    \* ---- exact-mode selector ----
    pool,              \* tenant -> records get_extracted_questions returns
    recent_questions,  \* tenant -> self.recent_questions[tenant]
    recent_keys,       \* the keys of self.recent_questions
    served,            \* tenant -> unique_ids selected so far, oldest first
    calls,             \* number of generate_question(exact) requests made
    sel,               \* the exact-mode request that returned last
    conc,              \* exact-mode requests in flight on concurrent threads
    exams,             \* the keys of self.exams
    \* ---- validation ----
    validation_cache,  \* InformationValidationAgent.validation_cache
    val,               \* the _validate_rag_results call that returned last
    gen,               \* the generate-mode request that returned last
    \* ---- segmentation ----
    seg,               \* the text handed to a parser and the records it returned
    chk,               \* the text handed to the chunk builder and its chunks
    pdf,               \* the PDFProcessor singleton: its documents, metadata, index
    qdir,              \* extracted_questions/: file name -> the file's content
    pick               \* the get_extracted_questions call that returned last

storeVars == <<embedding_model, index, documents, metadata, disk, clock, last>>
selVars   == <<pool, recent_questions, recent_keys, served, calls, sel, conc, exams>>
valVars   == <<validation_cache, val, gen>>
segVars   == <<seg, chk, pdf, qdir, pick>>
vars      == <<storeVars, selVars, valVars, segVars>>

(***************************************************************************)
(* Bounds of the model                                                     *)
(***************************************************************************)
MaxDocs  == 2      \* entries (and index rows) the store may hold
MaxClock == 1      \* add_user_question calls

Subjects  == {"A", "B"}        \* exam names (tenants)
Questions == {"q1", "q2"}      \* question texts
Titles    == {"A"}             \* study-material titles
Contents  == {"q1"}            \* study-material contents
Users     == {"u"}             \* user ids

Min(a, b) == IF a < b THEN a ELSE b

(***************************************************************************)
(* VectorStore                                                             *)
(***************************************************************************)
\* hashlib.md5(s.encode()).hexdigest(): equal strings give equal ids
MD5(s) == <<"md5", s>>

\* embedding_model.encode(text): an opaque function of the text
Embed(text) == [text |-> text, norm |-> Len(text)]

\* squared L2 distance of two embeddings: 0 exactly for equal ones
L2(v, w) == IF v = w THEN 0 ELSE 1 + (v.norm - w.norm) * (v.norm - w.norm)

NoIndex    == [none |-> TRUE, rows |-> <<>>]
EmptyIndex == [none |-> FALSE, rows |-> <<>>]
NoText     == "<no text key>"
NoDisk     == [exists |-> FALSE, metadata |-> <<>>, index |-> <<>>]

\* the part of the VectorStore a mutating call works on
Store == [documents |-> documents, metadata |-> metadata, index |-> index, disk |-> disk]

\* _save_data: metadata.json gets self.metadata, faiss_index.bin the index
save_data(st) ==
    [st EXCEPT !.disk = [exists |-> TRUE, metadata |-> st.metadata,
                         index |-> st.index.rows]]

\* the document_content add_exam_question builds
document_content(subject, question) == "S:" \o subject \o " Q:" \o question

\* the common tail of the three add operations: index.add, embedding_id,
\* append to documents and metadata, _save_data
add_entry(st, text, meta) ==
    save_data([st EXCEPT
        !.index.rows = Append(@, Embed(text)),
        !.documents  = Append(@, text),
        !.metadata   = Append(@, [meta EXCEPT !.embedding_id = Len(st.documents)])])

Meta(id, type, subject) ==
    [id |-> id, type |-> type, subject |-> subject, embedding_id |-> 0, text |-> NoText]

\* _rebuild_index
rebuild_index(st) ==
    IF ~embedding_model \/ st.documents = <<>>
    THEN st
    ELSE save_data([st EXCEPT
            !.index    = [none |-> FALSE,
                          rows |-> [i \in 1..Len(st.documents) |-> Embed(st.documents[i])]],
            !.metadata = [i \in 1..Len(st.metadata) |->
                             [st.metadata[i] EXCEPT !.embedding_id = i - 1]]])

RemoveAt(s, k) == [i \in 1..(Len(s) - 1) |-> IF i < k THEN s[i] ELSE s[i + 1]]

\* position of the first metadata entry with this id, 0 when there is none
FirstWithId(meta, doc_id) ==
    IF \E i \in 1..Len(meta) : meta[i].id = doc_id
    THEN CHOOSE i \in 1..Len(meta) :
            /\ meta[i].id = doc_id
            /\ \A j \in 1..(i - 1) : meta[j].id # doc_id
    ELSE 0

\* delete_document, on the store state st
delete_document_in(st, doc_id) ==
    LET target_idx == FirstWithId(st.metadata, doc_id) IN
    IF target_idx = 0
    THEN st
    ELSE IF target_idx > Len(st.documents)
    THEN st      \* del self.documents[target_idx] raises IndexError: nothing removed
    ELSE rebuild_index([st EXCEPT
            !.documents = RemoveAt(@, target_idx),
            !.metadata  = RemoveAt(@, target_idx)])

RECURSIVE delete_all(_, _)
delete_all(st, ids) ==
    IF ids = <<>> THEN st
    ELSE delete_all(delete_document_in(st, Head(ids)), Tail(ids))

\* doc_ids_to_delete of delete_exam_data
IdsOfSubject(meta, exam_name) ==
    LET sel_idx == SelectSeq([i \in 1..Len(meta) |-> i],
                             LAMBDA i : meta[i].subject = exam_name)
    IN  [k \in 1..Len(sel_idx) |-> meta[sel_idx[k]].id]

delete_exam_data_in(st, exam_name) ==
    delete_all(st, IdsOfSubject(st.metadata, exam_name))

\* FAISS IndexFlatL2.search: the k nearest rows as [idx (0-based), distance],
\* nearest first, equal distances by row number; idx -1 fills missing rows
Nearest(rows, q, k) ==
    LET n == Len(rows)
        Before(i, j) == \/ L2(rows[i], q) < L2(rows[j], q)
                        \/ L2(rows[i], q) = L2(rows[j], q) /\ i < j
        Rank(i) == Cardinality({j \in 1..n : Before(j, i)})
        At(r)   == CHOOSE i \in 1..n : Rank(i) = r - 1
    IN  [r \in 1..k |-> IF r <= n
                        THEN [idx |-> At(r) - 1, distance |-> L2(rows[At(r)], q)]
                        ELSE [idx |-> -1, distance |-> -1]]

\* the result loop of search_similar_questions
RECURSIVE FilterResults(_, _, _, _, _, _)
FilterResults(cands, docs, meta, subject, n_results, acc) ==
    IF cands = <<>> \/ Len(acc) >= n_results THEN acc
    ELSE LET idx  == Head(cands).idx
             rest == Tail(cands)
         IN  IF idx < 0 \/ idx >= Len(meta)
             THEN FilterResults(rest, docs, meta, subject, n_results, acc)
             ELSE LET m == meta[idx + 1] IN
                  IF subject # "" /\ m.subject # subject
                  THEN FilterResults(rest, docs, meta, subject, n_results, acc)
                  ELSE IF m.type # "exam_question"
                  THEN FilterResults(rest, docs, meta, subject, n_results, acc)
                  ELSE IF idx >= Len(docs)
                  THEN <<>>   \* self.documents[idx] raises; the except returns []
                  ELSE FilterResults(rest, docs, meta, subject, n_results,
                          Append(acc, [id |-> m.id, content |-> docs[idx + 1],
                                       metadata |-> m,
                                       distance |-> Head(cands).distance,
                                       rank |-> Len(acc) + 1]))

\* search_similar_questions with the subject filter left out
search_in_any_subject(model, idx, docs, meta, query, subject, n_results) ==
    IF ~model \/ idx.none THEN <<>>
    ELSE IF Len(docs) = 0 THEN <<>>
    ELSE LET search_k == Min(n_results * 2, Len(docs))
         IN  FilterResults(Nearest(idx.rows, Embed(query), search_k),
                           docs, meta, "", n_results, <<>>)

\* search_similar_questions on an explicit store state; subject "" is None
search_in(model, idx, docs, meta, query, subject, n_results) ==
    IF ~model \/ idx.none THEN <<>>
    ELSE IF Len(docs) = 0 THEN <<>>
    ELSE LET search_k == Min(n_results * 2, Len(docs))
         IN  FilterResults(Nearest(idx.rows, Embed(query), search_k),
                           docs, meta, subject, n_results, <<>>)

search_similar_questions(query, subject, n_results) ==
    search_in(embedding_model, index, documents, metadata, query, subject, n_results)

\* ---- the operations, as actions ----
Commit(st) ==
    /\ documents' = st.documents
    /\ metadata'  = st.metadata
    /\ index'     = st.index
    /\ disk'      = st.disk

\* the availability test with the embedding model left out
Unavailable_index_only == index.none

\* `if self.embedding_model is None or self.index is None`
Unavailable == ~embedding_model \/ index.none
Room        == Len(documents) < MaxDocs /\ Len(index.rows) < MaxDocs

add_exam_question(subject, question) ==
    LET doc_id == MD5(subject \o question) IN
    /\ IF Unavailable
       THEN /\ UNCHANGED <<documents, metadata, index, disk>>
            /\ last' = [op |-> "add_exam_question", arg |-> subject, ret |-> "None"]
       ELSE /\ Room
            /\ Commit(add_entry(Store, document_content(subject, question),
                                Meta(doc_id, "exam_question", subject)))
            /\ last' = [op |-> "add_exam_question", arg |-> subject, ret |-> "id"]
    /\ UNCHANGED <<embedding_model, clock>>
    /\ UNCHANGED <<selVars, valVars, segVars>>

add_study_material(title, content, subject) ==
    LET doc_id == MD5(title \o content) IN
    /\ IF Unavailable
       THEN /\ UNCHANGED <<documents, metadata, index, disk>>
            /\ last' = [op |-> "add_study_material", arg |-> subject, ret |-> "None"]
       ELSE /\ Room
            /\ Commit(add_entry(Store, content, Meta(doc_id, "study_material", subject)))
            /\ last' = [op |-> "add_study_material", arg |-> subject, ret |-> "id"]
    /\ UNCHANGED <<embedding_model, clock>>
    /\ UNCHANGED <<selVars, valVars, segVars>>

add_user_question(user_id, subject, question) ==
    LET doc_id == <<"md5", user_id \o question, clock>> IN
    /\ IF Unavailable
       THEN /\ UNCHANGED <<documents, metadata, index, disk, clock>>
            /\ last' = [op |-> "add_user_question", arg |-> subject, ret |-> "None"]
       ELSE /\ Room
            /\ clock < MaxClock
            /\ clock' = clock + 1
            /\ Commit(add_entry(Store, question, Meta(doc_id, "user_question", subject)))
            /\ last' = [op |-> "add_user_question", arg |-> subject, ret |-> "id"]
    /\ UNCHANGED embedding_model
    /\ UNCHANGED <<selVars, valVars, segVars>>

delete_document(doc_id) ==
    /\ Commit(delete_document_in(Store, doc_id))
    /\ last' = [op |-> "delete_document", arg |-> "",
                ret |-> IF FirstWithId(metadata, doc_id) # 0 THEN "True" ELSE "False"]
    /\ UNCHANGED <<embedding_model, clock>>
    /\ UNCHANGED <<selVars, valVars, segVars>>

delete_exam_data(exam_name) ==
    /\ Commit(delete_exam_data_in(Store, exam_name))
    /\ last' = [op |-> "delete_exam_data", arg |-> exam_name, ret |-> "True"]
    /\ UNCHANGED <<embedding_model, clock>>
    /\ UNCHANGED <<selVars, valVars, segVars>>

\* backup_collection: the content of the backup file it writes for a store
backup_collection(docs, meta) == [documents |-> docs, metadata |-> meta]

\* the backup files restore_collection is given: written by backup_collection
\* when the store was empty or held one exam question
Backups ==
    {backup_collection(<<>>, <<>>)} \cup
    {backup_collection(<<document_content(s, q)>>,
                       <<Meta(MD5(s \o q), "exam_question", s)>>) :
        s \in Subjects, q \in Questions}

restore_collection(backup_data) ==
    /\ Commit(rebuild_index([Store EXCEPT !.documents = backup_data.documents,
                                          !.metadata  = backup_data.metadata]))
    /\ last' = [op |-> "restore_collection", arg |-> "", ret |-> "True"]
    /\ UNCHANGED <<embedding_model, clock>>
    /\ UNCHANGED <<selVars, valVars, segVars>>

\* _load_existing_data, on the freshly constructed store
load_existing_data(model) ==
    IF disk.exists
    THEN [documents |-> [i \in 1..Len(disk.metadata) |->
                            IF disk.metadata[i].text = NoText THEN ""
                            ELSE disk.metadata[i].text],
          metadata  |-> disk.metadata,
          index     |-> [none |-> FALSE, rows |-> disk.index],
          disk      |-> disk]
    ELSE [documents |-> <<>>, metadata |-> <<>>,
          index     |-> IF model THEN EmptyIndex ELSE NoIndex,
          disk      |-> disk]

\* a new process: VectorStore.__init__ (_initialize_models, _load_existing_data)
Restart ==
    /\ embedding_model' \in BOOLEAN
    /\ Commit(load_existing_data(embedding_model'))
    /\ last' = [op |-> "load", arg |-> "", ret |-> IF disk.exists THEN "True" ELSE "False"]
    /\ UNCHANGED clock
    /\ UNCHANGED <<selVars, valVars, segVars>>

DocIds == {MD5(s \o q) : s \in Subjects, q \in Questions}

StoreInit ==
    /\ embedding_model \in BOOLEAN
    /\ index = IF embedding_model THEN EmptyIndex ELSE NoIndex
    /\ documents = <<>>
    /\ metadata = <<>>
    /\ disk = NoDisk
    /\ clock = 0
    /\ last = [op |-> "init", arg |-> "", ret |-> ""]

StoreNext ==
    \/ \E s \in Subjects, q \in Questions : add_exam_question(s, q)
    \/ \E t \in Titles, c \in Contents, s \in Subjects : add_study_material(t, c, s)
    \/ \E u \in Users, s \in Subjects, q \in Contents : add_user_question(u, s, q)
    \/ \E d \in DocIds : delete_document(d)
    \/ \E s \in Subjects : delete_exam_data(s)
    \/ \E b \in Backups : restore_collection(b)
    \/ Restart

\* one process: a serialized sequence of adds and deletes
SerialNext ==
    \/ \E s \in Subjects, q \in Questions : add_exam_question(s, q)
    \/ \E t \in Titles, c \in Contents, s \in Subjects : add_study_material(t, c, s)
    \/ \E u \in Users, s \in Subjects, q \in Contents : add_user_question(u, s, q)
    \/ \E d \in DocIds : delete_document(d)
    \/ \E s \in Subjects : delete_exam_data(s)

(***************************************************************************)
(* Claims about the VectorStore (specification Spec)                       *)
(***************************************************************************)
MutatingOps == {"add_exam_question", "add_study_material", "add_user_question",
                "delete_document", "delete_exam_data", "restore_collection"}

\* index.ntotal (0 for a missing index, as get_collection_stats reports it)
ntotal == IF index.none THEN 0 ELSE Len(index.rows)

\* C1: whenever a mutating VectorStore operation has returned,
\* len(documents) == len(metadata) == index.count, for every store content,
\* also when a delete removed the last remaining document.  (Stated for a
\* store whose embedding model is loaded.)
C1_ArrayParity ==
    (embedding_model /\ last.op \in MutatingOps) =>
        /\ Len(documents) = Len(metadata)
        /\ Len(metadata) = ntotal

\* C2: after delete_exam_data(T) has returned no metadata entry has subject T,
\* and no search (any query, any subject filter) returns a result of subject T.
Queries == Questions \cup {document_content(s, q) : s \in Subjects, q \in Questions}

C2_TenantDeleted ==
    last.op = "delete_exam_data" =>
        /\ \A i \in 1..Len(metadata) : metadata[i].subject # last.arg
        /\ \A query \in Queries, subject \in Subjects \cup {""}, n \in 1..MaxDocs :
              LET res == search_similar_questions(query, subject, n)
              IN  \A r \in 1..Len(res) : res[r].metadata.subject # last.arg

AddOps == {"add_exam_question", "add_study_material", "add_user_question"}

\* the embedding model or the index is not initialized
BackendUnavailable == ~embedding_model \/ index.none

\* C22: while the embedding backend is unavailable (embedding_model or index
\* not initialized) every add operation returns None and leaves documents,
\* metadata, the index and the persisted snapshot unchanged, and every search
\* returns an empty list.
C22_UnavailableNoOp ==
    /\ [](BackendUnavailable =>
            \A query \in Queries, subject \in Subjects \cup {""}, n \in 1..MaxDocs :
                search_similar_questions(query, subject, n) = <<>>)
    /\ [][(BackendUnavailable /\ last'.op \in AddOps) =>
            /\ last'.ret = "None"
            /\ UNCHANGED <<documents, metadata, index, disk>>]_vars

\* a store loaded from a snapshot without its embedding model refused an add
C22_Witness ==
    /\ ~embedding_model
    /\ ~index.none
    /\ Len(documents) = 1
    /\ last.op \in AddOps
    /\ last.ret = "None"

\* C23: search_similar_questions returns an empty list when the store is empty
\* or uninitialized (a failure inside it also gives an empty list, never an
\* exception); otherwise it returns at most k results in non-decreasing
\* distance order with ranks 1..n, each of the subject asked for.
C23_SearchShape ==
    \A query \in Queries, subject \in Subjects \cup {""}, k \in 1..MaxDocs :
        LET res == search_similar_questions(query, subject, k) IN
        /\ (BackendUnavailable \/ Len(documents) = 0) => res = <<>>
        /\ Len(res) <= k
        /\ \A r \in 1..Len(res) :
              /\ res[r].rank = r
              /\ subject # "" => res[r].metadata.subject = subject
        /\ \A r1, r2 \in 1..Len(res) : r1 < r2 => res[r1].distance <= res[r2].distance

\* two exam questions of different subjects at different distances from a
\* query: the unfiltered search returns both, the filtered search one
C23_Witness ==
    \E query \in Queries :
        LET res == search_similar_questions(query, "", 2) IN
        /\ Len(res) = 2
        /\ res[1].distance < res[2].distance
        /\ res[1].metadata.subject # res[2].metadata.subject
        /\ Len(search_similar_questions(query, "A", 2)) = 1

\* C24: a snapshot whose index count differs from its metadata length is not
\* adopted on startup: after _load_existing_data the store's index and
\* metadata have the same size.
C24_ConsistentSnapshotOnly ==
    last.op = "load" => Len(metadata) = ntotal

\* the entries of metadata whose subject is not exam_name, with their documents
OtherTenants(meta, exam_name) ==
    SelectSeq([i \in 1..Len(meta) |-> i], LAMBDA i : meta[i].subject # exam_name)

\* C27: delete_exam_data(T) removes all and only the entries whose subject is
\* T: the entries of every other tenant are still there afterwards, with the
\* same documents and in the same order, also when entries of different
\* tenants share a document id.
C27_OnlyTenantRemoved ==
    [][last'.op = "delete_exam_data" =>
          LET keep == OtherTenants(metadata, last'.arg) IN
          /\ Len(metadata') = Len(keep)
          /\ Len(documents') = Len(keep)
          /\ \A k \in 1..Len(keep) :
                /\ metadata'[k].id = metadata[keep[k]].id
                /\ metadata'[k].subject = metadata[keep[k]].subject
                /\ metadata'[k].type = metadata[keep[k]].type
                /\ keep[k] <= Len(documents) => documents'[k] = documents[keep[k]]]_vars

\* C25: after any serialized sequence of adds and deletes every position i of
\* the store has metadata[i].embedding_id == i and index row i is the
\* embedding of documents[i] (positions counted from 0 in the code, from 1
\* here).
C25_IdsArePositions ==
    \A i \in 1..Len(documents) :
        /\ i <= Len(metadata)
        /\ metadata[i].embedding_id = i - 1
        /\ i <= Len(index.rows)
        /\ index.rows[i] = Embed(documents[i])

\* C3: an exam question that was added and saved is, after the store is loaded
\* again on startup, still the document at its position, and a search for its
\* text returns it as the content of the top result.
C3_RoundTrip ==
    [][(last.ret = "id" /\ last.op = "add_exam_question" /\ last'.op = "load"
        /\ embedding_model')
       => LET i == Len(documents)
              x == documents[i]
              res == search_in(embedding_model', index', documents', metadata', x, "", 1)
          IN  /\ Len(documents') = Len(documents)
              /\ documents'[i] = x
              /\ Len(res) = 1
              /\ res[1].content = x]_vars

(***************************************************************************)
(* Exact-mode selection: ExamQuestionGenerator.generate_question("exact")  *)
(***************************************************************************)
MaxPool  == 11     \* candidates of the large tenant
MaxCalls == 3      \* exact-mode requests of one run
RecentLimit == 10  \* "최대 10개 유지"

Tenants == {"A", "B"}

Digits == <<"1", "2", "3", "4", "5", "6", "7", "8", "9", "10", "11", "12", "13", "14">>

\* a question record as _parse_questions_from_txt yields it; picture is TRUE when
\* the text holds one of the picture phrases the exact-mode filter looks for
Question(number, source_file, picture) ==
    [number |-> number, source_file |-> source_file, picture |-> picture]

\* n records numbered 1..n, taken in turn from the two source files a.pdf and b.pdf
Records(n) == [i \in 1..n |-> Question(Digits[i], IF i % 2 = 1 THEN "a" ELSE "b", FALSE)]

PictureOnly == <<Question("1", "c", TRUE)>>

\* unique_id = f"{source_file}_{question_number}"
unique_id(q) == q.source_file \o "_" \o q.number

\* lines 632-640: the questions without a picture phrase
filtered_questions(t) == SelectSeq(pool[t], LAMBDA q : ~q.picture)

\* self.recent_questions.get(exam_name, [])
recent_of(t) == IF t \in recent_keys THEN recent_questions[t] ELSE <<>>

InSeq(x, s) == \E i \in 1..Len(s) : s[i] = x

\* lines 687-694: the candidates whose unique_id is not in the recent list.
\* The shuffles of lines 664-679 only permute the list random.choice draws from.
available_questions_all(t) == filtered_questions(t)
available_questions(t) ==
    SelectSeq(filtered_questions(t), LAMBDA q : ~InSeq(unique_id(q), recent_of(t)))

\* lines 627-629 and 642-644: the early returns of an empty pool
early_return_unfiltered(t) ==
    IF pool[t] = <<>> THEN "no_extracted_questions" ELSE ""
early_return(t) ==
    IF pool[t] = <<>> THEN "no_extracted_questions"
    ELSE IF filtered_questions(t) = <<>> THEN "no_usable_questions"
    ELSE ""

\* lines 733-738: append, and drop the oldest entry beyond the limit
append_recent_lifo(hist, uid) ==
    LET h == Append(hist, uid) IN
    IF Len(h) > RecentLimit THEN SubSeq(h, 1, Len(h) - 1) ELSE h
append_recent_short(hist, uid) ==
    LET h == Append(hist, uid) IN
    IF Len(h) > RecentLimit - 1 THEN Tail(h) ELSE h
append_recent(hist, uid) ==
    LET h == Append(hist, uid) IN
    IF Len(h) > RecentLimit THEN Tail(h) ELSE h

\* line 714: the recent list an exhausted pool leaves to append to
cleared_keep(hist) == hist
cleared(hist) == <<>>

NoSel == [tenant |-> "", outcome |-> "none", unique_id |-> "", reset |-> FALSE,
          generation |-> "none"]

\* what the chat-completion call of lines 789-799 can do after a selection:
\* return a text, return empty content, or raise
Generations == {"ok", "empty", "raise"}

\* the recent list with the selection undone when no question was produced
after_generation_rollback(before, appended, generation) ==
    IF generation = "ok" THEN appended ELSE before

\* lines 789-847: neither the success path nor the two failure paths write
\* self.recent_questions; the list stays as the selection left it
after_generation(before, appended, generation) == appended

\* two request threads, neither inside generate_question
Threads == {1, 2}
NoThread == [pc |-> "idle", unique_id |-> "", n |-> 0, len_at_return |-> 0]
NoConc == [thr |-> [i \in Threads |-> NoThread], overlapped |-> FALSE]

generate_question_exact(t) ==
    /\ calls < MaxCalls
    /\ calls' = calls + 1
    /\ UNCHANGED <<pool, conc, exams, storeVars, valVars, segVars>>
    /\ IF early_return(t) # ""
       THEN /\ sel' = [tenant |-> t, outcome |-> early_return(t),
                       unique_id |-> "", reset |-> FALSE, generation |-> "none"]
            /\ UNCHANGED <<recent_questions, recent_keys, served>>
       ELSE IF available_questions(t) # <<>>
       THEN \E i \in 1..Len(available_questions(t)), g \in Generations :
              LET uid == unique_id(available_questions(t)[i]) IN
              /\ recent_questions' =
                    [recent_questions EXCEPT
                        ![t] = after_generation(recent_of(t),
                                                append_recent(recent_of(t), uid), g)]
              /\ recent_keys' = recent_keys \cup {t}
              /\ served' = [served EXCEPT ![t] = Append(@, [id |-> uid, reset |-> FALSE])]
              /\ sel' = [tenant |-> t, outcome |-> "selected",
                         unique_id |-> uid, reset |-> FALSE, generation |-> g]
       ELSE IF filtered_questions(t) = <<>>
       THEN \* random.choice of an empty list raises after the list was cleared
            /\ recent_questions' = [recent_questions EXCEPT ![t] = cleared(recent_of(t))]
            /\ recent_keys' = recent_keys \cup {t}
            /\ sel' = [tenant |-> t, outcome |-> "error", unique_id |-> "", reset |-> TRUE,
                       generation |-> "none"]
            /\ UNCHANGED served
       ELSE \E i \in 1..Len(filtered_questions(t)), g \in Generations :
              LET uid == unique_id(filtered_questions(t)[i]) IN
              /\ recent_questions' =
                    [recent_questions EXCEPT
                        ![t] = after_generation(cleared(recent_of(t)),
                                                append_recent(cleared(recent_of(t)), uid), g)]
              /\ recent_keys' = recent_keys \cup {t}
              /\ served' = [served EXCEPT ![t] = Append(@, [id |-> uid, reset |-> TRUE])]
              /\ sel' = [tenant |-> t, outcome |-> "selected",
                         unique_id |-> uid, reset |-> TRUE, generation |-> g]

\* reset_question_history of the UI; served restarts with the emptied list
reset_question_history(t) ==
    /\ t \in recent_keys
    /\ recent_questions' = [recent_questions EXCEPT ![t] = <<>>]
    /\ served' = [served EXCEPT ![t] = <<>>]
    /\ sel' = NoSel
    /\ UNCHANGED <<pool, recent_keys, calls, conc, exams>>
    /\ UNCHANGED <<storeVars, valVars, segVars>>

\* The pools of the two tenants, and for tenant A the history after its first
\* k candidates were served in order (k = 0: a fresh process).
SelInit ==
    \E n \in 0..MaxPool, pic \in BOOLEAN, k \in 0..RecentLimit, pb \in {0, 1, 2} :
        /\ k <= n
        /\ pool = [t \in Tenants |->
                     IF t = "A" THEN Records(n) \o (IF pic THEN PictureOnly ELSE <<>>)
                     ELSE IF pb = 1 THEN PictureOnly ELSE Records(pb)]
        /\ recent_questions = [t \in Tenants |->
                     IF t = "A" THEN [i \in 1..k |-> unique_id(Records(n)[i])] ELSE <<>>]
        /\ recent_keys = IF k > 0 THEN {"A"} ELSE {}
        /\ served = [t \in Tenants |->
                     IF t = "A"
                     THEN [i \in 1..k |-> [id |-> unique_id(Records(n)[i]), reset |-> FALSE]]
                     ELSE <<>>]
        /\ calls = 0
        /\ sel = NoSel
        /\ conc = NoConc
        /\ exams = Tenants

SelIdle ==
    /\ pool = [t \in Tenants |-> <<>>]
    /\ recent_questions = [t \in Tenants |-> <<>>]
    /\ recent_keys = {}
    /\ served = [t \in Tenants |-> <<>>]
    /\ calls = 0
    /\ sel = NoSel
    /\ conc = NoConc
    /\ exams = Tenants

SelNext ==
    \/ \E t \in Tenants : generate_question_exact(t)
    \/ \E t \in Tenants : reset_question_history(t)

(***************************************************************************)
(* Exact-mode requests of one tenant on two threads, without a lock: the   *)
(* steps of lines 682-738 of generate_question that touch                  *)
(* self.recent_questions, any of which another thread may run between      *)
(***************************************************************************)
MaxThreadCalls == 1    \* requests of one thread

ConcTenant == "A"

\* lines 737-738 without the pop
trim_recent_never(hist) == hist

\* lines 737-738: `if len(...) > 10: pop(0)`
trim_recent(hist) == IF Len(hist) > RecentLimit THEN Tail(hist) ELSE hist

InFlight(i) == conc.thr[i].pc \in {"append", "trim"}

\* lines 624-731: the early returns, the read of the recent list, the choice,
\* and the clearing of the list when every candidate is in it
conc_select(i) ==
    LET t == ConcTenant
        me == conc.thr[i]
        over == conc.overlapped \/ \E j \in Threads \ {i} : InFlight(j)
    IN
    /\ me.pc \in {"idle", "done"}
    /\ me.n < MaxThreadCalls
    /\ IF early_return(t) # ""
       THEN /\ conc' = [conc EXCEPT !.thr[i] = [pc |-> "done", unique_id |-> "", n |-> me.n + 1,
                                                len_at_return |-> Len(recent_of(t))],
                                    !.overlapped = over]
            /\ UNCHANGED <<recent_questions, recent_keys>>
       ELSE IF available_questions(t) # <<>>
       THEN /\ \E k \in 1..Len(available_questions(t)) :
                 conc' = [conc EXCEPT !.thr[i] = [pc |-> "append",
                                                  unique_id |-> unique_id(available_questions(t)[k]),
                                                  n |-> me.n + 1, len_at_return |-> 0],
                                      !.overlapped = over]
            /\ UNCHANGED <<recent_questions, recent_keys>>
       ELSE /\ \E k \in 1..Len(filtered_questions(t)) :
                 conc' = [conc EXCEPT !.thr[i] = [pc |-> "append",
                                                  unique_id |-> unique_id(filtered_questions(t)[k]),
                                                  n |-> me.n + 1, len_at_return |-> 0],
                                      !.overlapped = over]
            /\ recent_questions' = [recent_questions EXCEPT ![t] = cleared(recent_of(t))]
            /\ recent_keys' = recent_keys \cup {t}
    /\ UNCHANGED <<pool, served, calls, sel, exams>>
    /\ UNCHANGED <<storeVars, valVars, segVars>>

\* lines 734-736: the list is created when missing, the id appended
conc_append(i) ==
    LET t == ConcTenant IN
    /\ conc.thr[i].pc = "append"
    /\ recent_questions' = [recent_questions EXCEPT
                               ![t] = Append(recent_of(t), conc.thr[i].unique_id)]
    /\ recent_keys' = recent_keys \cup {t}
    /\ conc' = [conc EXCEPT !.thr[i].pc = "trim"]
    /\ UNCHANGED <<pool, served, calls, sel, exams>>
    /\ UNCHANGED <<storeVars, valVars, segVars>>

\* lines 737-738, then the request returns
conc_trim(i) ==
    LET t == ConcTenant IN
    /\ conc.thr[i].pc = "trim"
    /\ recent_questions' = [recent_questions EXCEPT ![t] = trim_recent(recent_of(t))]
    /\ conc' = [conc EXCEPT !.thr[i].pc = "done",
                            !.thr[i].len_at_return = Len(trim_recent(recent_of(t)))]
    /\ UNCHANGED <<pool, recent_keys, served, calls, sel, exams>>
    /\ UNCHANGED <<storeVars, valVars, segVars>>

\* the tenant's pool and the history after its first k candidates were served
ConcInit ==
    \E n \in 0..MaxPool, k \in 0..RecentLimit :
        /\ k <= n
        /\ pool = [t \in Tenants |-> IF t = ConcTenant THEN Records(n) ELSE <<>>]
        /\ recent_questions = [t \in Tenants |->
                     IF t = ConcTenant THEN [i \in 1..k |-> unique_id(Records(n)[i])] ELSE <<>>]
        /\ recent_keys = IF k > 0 THEN {ConcTenant} ELSE {}
        /\ served = [t \in Tenants |-> <<>>]
        /\ calls = 0
        /\ sel = NoSel
        /\ conc = NoConc
        /\ exams = Tenants

ConcNext ==
    \/ \E i \in Threads : conc_select(i)
    \/ \E i \in Threads : conc_append(i)
    \/ \E i \in Threads : conc_trim(i)

\* no unique_id occurs twice in the recent list
NoDuplicates(hist) == \A a, b \in 1..Len(hist) : a # b => hist[a] # hist[b]

\* C29: without serialization two exact-mode requests of one tenant can both
\* read the history before either appends and return the same question; the
\* no-repeat guarantee (no id twice in the recent list) and the bound of 10 on
\* the list at the return of a request hold as long as no two requests
\* overlapped.
C29_SerializedOnly ==
    ~conc.overlapped =>
        /\ NoDuplicates(recent_questions[ConcTenant])
        /\ \A i \in Threads :
              conc.thr[i].pc = "done" => conc.thr[i].len_at_return <= RecentLimit

\* both requests chose before either appended, returned the same question,
\* the first returned with 11 entries in the list and the id is in it twice
C29_Witness ==
    /\ conc.overlapped
    /\ \A i \in Threads : conc.thr[i].pc = "done"
    /\ conc.thr[1].unique_id = conc.thr[2].unique_id
    /\ conc.thr[1].unique_id # ""
    /\ \E i \in Threads : conc.thr[i].len_at_return > RecentLimit
    /\ ~NoDuplicates(recent_questions[ConcTenant])

(***************************************************************************)
(* Claims about the exact-mode selector (specification SelSpec)            *)
(***************************************************************************)
PoolSize(t) == Len(filtered_questions(t))

\* the selection at position j of served[t] repeats one of the w before it
RepeatsWithin(t, j, w) ==
    \E i \in 1..(j - 1) : j - i <= w /\ served[t][i].id = served[t][j].id

\* a reset happened after selection i, up to and including selection j
ResetBetween(t, i, j) == \E k \in (i + 1)..j : served[t][k].reset

\* C4 as stated: with a pool of P >= 2 candidates no selection returns a question
\* returned by one of the previous min(10, P-1) selections; with P = 3 the 4th
\* selection never equals the 3rd.
C4_NoRepeatAsStated ==
    \A t \in Tenants :
        PoolSize(t) >= 2 =>
            \A j \in 1..Len(served[t]) :
                ~RepeatsWithin(t, j, Min(RecentLimit, PoolSize(t) - 1))

\* C4 as amended: no selection returns a question that one of the previous 10
\* selections returned, unless the list was reset (by exhaustion) in between;
\* the selection that performs the reset may return any candidate.
C4_NoRepeatSinceReset ==
    \A t \in Tenants :
        \A j \in 1..Len(served[t]) :
            \A i \in 1..(j - 1) :
                (j - i <= RecentLimit /\ ~ResetBetween(t, i, j))
                    => served[t][i].id # served[t][j].id

\* pool of 3, four selections, the 4th performed the reset and the list was
\* not empty before
C4_Witness ==
    /\ PoolSize("A") = 3
    /\ Len(served["A"]) = 4
    /\ served["A"][4].reset
    /\ ~served["A"][3].reset
    /\ served["A"][2].id # served["A"][3].id

\* C5: with at least 11 candidates of distinct unique_ids, the current selection
\* and the 10 before it are pairwise distinct, and the list is never cleared by
\* exhaustion.
C5_LargePoolWindow ==
    \A t \in Tenants :
        PoolSize(t) >= RecentLimit + 1 =>
            \A j \in 1..Len(served[t]) :
                /\ ~served[t][j].reset
                /\ ~RepeatsWithin(t, j, RecentLimit)

\* 12 selections over 11 candidates: the window has moved past the first one
C5_Witness ==
    /\ PoolSize("A") >= RecentLimit + 1
    /\ Len(served["A"]) >= RecentLimit + 2
    /\ Len(recent_questions["A"]) = RecentLimit

\* an exact-mode request for t just selected a question
Selected(t) == calls' = calls + 1 /\ sel'.tenant = t /\ sel'.outcome = "selected"

\* C6: every recent list holds at most 10 identifiers; a selection appends the
\* chosen unique_id at the end and, when the length would exceed 10, removes
\* exactly the oldest entry, keeping the order of the others.
C6_BoundedFifo ==
    /\ [](\A t \in Tenants : Len(recent_questions[t]) <= RecentLimit)
    /\ [][\A t \in Tenants :
            Selected(t) =>
                LET old == IF sel'.reset THEN <<>> ELSE recent_questions[t]
                    new == recent_questions'[t]
                IN  /\ new[Len(new)] = sel'.unique_id
                    /\ IF Len(old) + 1 > RecentLimit
                       THEN /\ Len(new) = Len(old)
                            /\ \A i \in 1..(Len(old) - 1) : new[i] = old[i + 1]
                       ELSE /\ Len(new) = Len(old) + 1
                            /\ \A i \in 1..Len(old) : new[i] = old[i]]_vars

\* a full list lost its oldest entry to a new selection
C6_Witness ==
    /\ sel.outcome = "selected"
    /\ ~sel.reset
    /\ Len(served[sel.tenant]) > RecentLimit
    /\ Len(recent_questions[sel.tenant]) = RecentLimit

\* C7: a selection that finds every candidate in the recent list clears the list
\* and chooses among all candidates, so the list then holds exactly the chosen
\* id; with P <= 10 candidates and an empty list to start with, the first P
\* selections are pairwise distinct and the (P+1)-th is the first to reset.
C7_ResetOnExhaustion ==
    /\ (sel.outcome = "selected" /\ sel.reset) =>
          /\ recent_questions[sel.tenant] = <<sel.unique_id>>
          /\ \E i \in 1..PoolSize(sel.tenant) :
                unique_id(filtered_questions(sel.tenant)[i]) = sel.unique_id
    /\ \A t \in Tenants :
          (PoolSize(t) >= 1 /\ PoolSize(t) <= RecentLimit) =>
              \A j \in 1..Len(served[t]) :
                  /\ j <= PoolSize(t) =>
                        ~served[t][j].reset /\ ~RepeatsWithin(t, j, j - 1)
                  /\ j = PoolSize(t) + 1 => served[t][j].reset

\* the (P+1)-th selection of a pool of P = 3 has just reset the list
C7_Witness ==
    /\ sel.outcome = "selected"
    /\ sel.reset
    /\ sel.tenant = "A"
    /\ PoolSize("A") = 3
    /\ Len(served["A"]) = 4
    /\ recent_questions["A"] = <<sel.unique_id>>

\* C8: an exact-mode request over an empty pool (nothing extracted, or nothing
\* left after the picture filter) returns the not-found message and changes no
\* tenant's recent list.
C8_EmptyPoolNotFound ==
    [][\A t \in Tenants :
         (calls' = calls + 1 /\ sel'.tenant = t /\ PoolSize(t) = 0) =>
            /\ sel'.outcome \in {"no_extracted_questions", "no_usable_questions"}
            /\ recent_questions' = recent_questions
            /\ recent_keys' = recent_keys]_vars

\* a request found only picture questions, while another tenant has a history
C8_Witness ==
    /\ sel.outcome = "no_usable_questions"
    /\ \E t \in Tenants : t # sel.tenant /\ Len(recent_questions[t]) > 0

\* how often an id occurs in a recent list
Occurrences(hist, uid) == Cardinality({i \in 1..Len(hist) : hist[i] = uid})

\* C35: a request that reached selection has appended the chosen unique_id to
\* the tenant's history exactly once, and the id is still the newest entry of
\* the history when the request has returned, whether the generation call
\* returned a question, returned nothing or raised.
C35_AppendedAndKept ==
    sel.outcome = "selected" =>
        LET hist == recent_questions[sel.tenant] IN
        /\ sel.tenant \in recent_keys
        /\ hist # <<>>
        /\ hist[Len(hist)] = sel.unique_id
        /\ Occurrences(hist, sel.unique_id) = 1

\* the generation call raised after a selection from a full history: the id
\* is in the history although the caller got no question
C35_Witness ==
    /\ sel.outcome = "selected"
    /\ sel.generation = "raise"
    /\ Len(recent_questions[sel.tenant]) = RecentLimit
    /\ recent_questions[sel.tenant][RecentLimit] = sel.unique_id

(***************************************************************************)
(* InformationValidationAgent                                              *)
(***************************************************************************)
MaxChunks   == 2   \* paragraphs of a context handed to the validator
MaxValCalls == 2   \* _validate_rag_results calls of one run

ValQueries == {"x", "y"}

\* paragraphs of a context: len is len(p.strip())
Paragraphs == {[text |-> "c1", len |-> 30], [text |-> "c2", len |-> 40],
               [text |-> "s", len |-> 5]}
MinParagraph == 20     \* len(p) > 20

Contexts == UNION {[1..n -> Paragraphs] : n \in 0..MaxChunks}
MetadataLists == {<<>>, <<"m1">>, <<"m1", "m2", "m3">>}

\* what the chat-completion call of _validate_chunk can do: raise, return no
\* choices, return empty content, or return a response text.  Of a text only
\* what _parse_validation_result reads is kept: validity is "none" without a
\* "유효성:" label, else whether the rest of that line holds "유효"; conf is the
\* number after "신뢰도:" in hundredths, "absent", or "malformed" (float() raises)
Raise     == [kind |-> "raise", validity |-> "none", conf |-> "absent", value |-> 0]
NoChoices == [kind |-> "no_choices", validity |-> "none", conf |-> "absent", value |-> 0]
EmptyText == [kind |-> "empty", validity |-> "none", conf |-> "absent", value |-> 0]
Text(validity, conf, value) ==
    [kind |-> "text", validity |-> validity, conf |-> conf, value |-> value]
\* the last text has no validity label and reads "신뢰도: 1.5"
Judgments == {Raise, NoChoices, EmptyText,
              Text("valid", "number", 90), Text("invalid", "number", 20),
              Text("invalid", "malformed", 0), Text("none", "number", 150)}
FailedKinds == {"raise", "no_choices", "empty"}

Result(is_valid, confidence, reason) ==
    [is_valid |-> is_valid, confidence |-> confidence, reason |-> reason]

\* _parse_validation_result
parse_validation_result(response) ==
    IF response.conf = "malformed"
    THEN Result(TRUE, 50, "parse failed")
    ELSE Result(IF response.validity = "none" THEN TRUE ELSE response.validity = "valid",
                IF response.conf = "number" THEN response.value ELSE 50,
                "parsed")

\* lines 176-180: the default for an empty response
empty_default == Result(TRUE, 50, "empty response")

\* lines 187-193: the default when the call raises
exception_default_closed == Result(FALSE, 50, "validation failed")
exception_default == Result(TRUE, 50, "validation failed")

\* hash(chunk)
hash(chunk) == <<"hash", chunk.text>>

cache_key(query, chunk) == <<query, hash(chunk)>>

\* _validate_chunk with the default of the except branch stored like a result
validate_chunk_caches_failure(cache, query, chunk, judgment) ==
    LET key == cache_key(query, chunk) IN
    IF key \in DOMAIN cache
    THEN [result |-> cache[key], cache |-> cache, called |-> FALSE]
    ELSE LET validation_result ==
                 IF judgment.kind = "raise" THEN exception_default
                 ELSE IF judgment.kind = "text" THEN parse_validation_result(judgment)
                 ELSE empty_default
         IN  [result |-> validation_result,
              cache  |-> (key :> validation_result) @@ cache,
              called |-> TRUE]

\* _validate_chunk without the cache lookup of lines 155-157
validate_chunk_no_lookup(cache, query, chunk, judgment) ==
    LET key == <<query, <<"hash", chunk.text>>>> IN
    IF judgment.kind = "raise"
    THEN [result |-> [is_valid |-> TRUE, confidence |-> 50, reason |-> "validation failed"],
          cache |-> cache, called |-> TRUE]
    ELSE LET validation_result ==
                 IF judgment.kind = "text" THEN parse_validation_result(judgment)
                 ELSE empty_default
         IN  [result |-> validation_result,
              cache  |-> (key :> validation_result) @@ cache,
              called |-> TRUE]

\* _validate_chunk with the judgment the backend gives if it is called:
\* the result, the cache afterwards, and whether the backend was called
validate_chunk(cache, query, chunk, judgment) ==
    LET key == cache_key(query, chunk) IN
    IF key \in DOMAIN cache
    THEN [result |-> cache[key], cache |-> cache, called |-> FALSE]
    ELSE IF judgment.kind = "raise"
    THEN [result |-> exception_default, cache |-> cache, called |-> TRUE]
    ELSE LET validation_result ==
                 IF judgment.kind = "text" THEN parse_validation_result(judgment)
                 ELSE empty_default
         IN  [result |-> validation_result,
              cache  |-> (key :> validation_result) @@ cache,
              called |-> TRUE]

\* _split_context_into_chunks, for a context without numbered or lettered
\* lines: the paragraphs longer than 20 characters
split_context_into_chunks(context) ==
    SelectSeq(context, LAMBDA para : para.len > MinParagraph)

\* _filter_metadata without the truncation of lines 275-276
filter_metadata_whole(meta, filtered_count, original_count) == meta

\* _filter_metadata
filter_metadata(meta, filtered_count, original_count) ==
    IF meta = <<>> THEN <<>>
    ELSE IF filtered_count < original_count
    THEN SubSeq(meta, 1, Min(filtered_count, Len(meta)))
    ELSE meta

\* the loop of _validate_rag_results over chunks[i..], cache threaded through
RECURSIVE validate_loop(_, _, _, _, _)
validate_loop(cache, query, chunks, judgments, i) ==
    IF i > Len(chunks) THEN [cache |-> cache, steps |-> <<>>]
    ELSE LET r    == validate_chunk(cache, query, chunks[i], judgments[i])
             rest == validate_loop(r.cache, query, chunks, judgments, i + 1)
         IN  [cache |-> rest.cache,
              steps |-> <<[chunk |-> chunks[i], result |-> r.result, called |-> r.called,
                           kind |-> IF r.called THEN judgments[i].kind ELSE "cached"]>>
                        \o rest.steps]

\* the loop of lines 86-95 with every chunk appended to validated_chunks
validated_chunks_all(steps) == steps

\* lines 86-95: the steps whose chunk is appended to validated_chunks
validated_chunks(steps) == SelectSeq(steps, LAMBDA st : st.result.is_valid)

\* lines 86-95: the steps whose chunk is appended to removed_chunks
removed_chunks(steps) == SelectSeq(steps, LAMBDA st : ~st.result.is_valid)

validate_rag_results(query, context, meta, judgments) ==
    /\ val.n < MaxValCalls
    /\ UNCHANGED <<storeVars, selVars, gen, segVars>>
    /\ IF context = <<>>
       THEN /\ val' = [n |-> val.n + 1, metadata |-> meta,
                       query |-> query, steps |-> <<>>, filtered_context |-> <<>>,
                       filtered_metadata |-> meta, original_chunks |-> 0,
                       filtered_chunks |-> 0, removed_chunks |-> 0]
            /\ UNCHANGED validation_cache
       ELSE LET chunks    == split_context_into_chunks(context)
                run       == validate_loop(validation_cache, query, chunks, judgments, 1)
                validated == validated_chunks(run.steps)
                removed   == removed_chunks(run.steps)
            IN  /\ validation_cache' = run.cache
                /\ val' = [n |-> val.n + 1, metadata |-> meta,
                           query |-> query, steps |-> run.steps,
                           filtered_context |-> [k \in 1..Len(validated) |-> validated[k].chunk],
                           filtered_metadata |-> filter_metadata(meta, Len(validated), Len(chunks)),
                           original_chunks |-> Len(chunks),
                           filtered_chunks |-> Len(validated),
                           removed_chunks |-> Len(removed)]

NoVal == [n |-> 0, metadata |-> <<>>, query |-> "", steps |-> <<>>, filtered_context |-> <<>>,
          filtered_metadata |-> <<>>, original_chunks |-> 0,
          filtered_chunks |-> 0, removed_chunks |-> 0]

ValInit == validation_cache = <<>> /\ val = NoVal

\* one judgment for every chunk the context splits into
ValNext ==
    \E query \in ValQueries, context \in Contexts, meta \in MetadataLists :
        \E judgments \in [1..Len(split_context_into_chunks(context)) -> Judgments] :
            validate_rag_results(query, context, meta, judgments)

(***************************************************************************)
(* Claims about the validation agent (specification ValSpec)               *)
(***************************************************************************)
\* C9: whenever the judgment call of _validate_chunk raises, returns no choices
\* or returns empty content, the chunk's result is valid with confidence 0.5,
\* the chunk is kept in filtered_context, and a context whose every judgment
\* failed loses no chunk (removed_chunks = 0).
C9_FailOpen ==
    /\ \A i \in 1..Len(val.steps) :
          val.steps[i].kind \in FailedKinds =>
              /\ val.steps[i].result.is_valid
              /\ val.steps[i].result.confidence = 50
              /\ InSeq(val.steps[i].chunk, val.filtered_context)
    /\ (\A i \in 1..Len(val.steps) : val.steps[i].kind \in FailedKinds) =>
          /\ val.removed_chunks = 0
          /\ val.filtered_chunks = val.original_chunks
          /\ val.filtered_context = [i \in 1..Len(val.steps) |-> val.steps[i].chunk]

\* a context of two chunks: one judgment raised, the other came back empty
C9_Witness ==
    /\ Len(val.steps) = 2
    /\ val.steps[1].kind = "raise"
    /\ val.steps[2].kind \in {"empty", "no_choices"}
    /\ val.removed_chunks = 0
    /\ Len(val.filtered_context) = 2

\* C11: the validation cache only grows and is never overwritten: every key
\* stored before a _validate_rag_results call is still stored after it with the
\* same result, and every chunk of the call whose (query, hash(chunk)) key was
\* already stored is answered with the stored result without calling the
\* judgment backend, whatever its position and whatever metadata was passed.
C11_CacheMonotone ==
    [][/\ \A key \in DOMAIN validation_cache :
             /\ key \in DOMAIN validation_cache'
             /\ validation_cache'[key] = validation_cache[key]
       /\ val' # val =>
             \A i \in 1..Len(val'.steps) :
                 LET st == val'.steps[i] IN
                 cache_key(val'.query, st.chunk) \in DOMAIN validation_cache =>
                     /\ ~st.called
                     /\ st.result = validation_cache[cache_key(val'.query, st.chunk)]]_vars

\* a second call answered a chunk from the cache while asking the backend for
\* another chunk of the same context
C11_Witness ==
    /\ val.n = 2
    /\ Len(val.steps) = 2
    /\ val.steps[2].kind = "cached"
    /\ ~val.steps[2].result.is_valid
    /\ val.steps[1].called

\* C12: every ValidationResult the validator produces, whether parsed from a
\* response, read from the cache or a fail-open default, has a confidence
\* within [0, 1] (0..100 in hundredths), for every response text.
C12_ConfidenceInUnitInterval ==
    /\ \A i \in 1..Len(val.steps) : val.steps[i].result.confidence \in 0..100
    /\ \A key \in DOMAIN validation_cache : validation_cache[key].confidence \in 0..100

ReturnedKinds == {"text", "empty", "no_choices"}

\* C33: the fail-open result of a judgment call that raised is never stored
\* in the validation cache: no stored result is the exception default, the key
\* of a chunk whose call raised is not stored unless a later call for it
\* returned, and the next _validate_chunk for the same query and chunk calls
\* the backend again; a result obtained from a returned response (parsed, or
\* the empty-response default) is stored under the chunk's key.
C33_FailureNotCached ==
    /\ \A key \in DOMAIN validation_cache : validation_cache[key] # exception_default
    /\ \A i \in 1..Len(val.steps) :
          LET st  == val.steps[i]
              key == cache_key(val.query, st.chunk)
          IN  /\ (/\ st.kind = "raise"
                  /\ \A j \in (i + 1)..Len(val.steps) :
                         val.steps[j].chunk = st.chunk => val.steps[j].kind \notin ReturnedKinds)
                    => key \notin DOMAIN validation_cache
              /\ st.kind = "raise" =>
                    \A j \in (i + 1)..Len(val.steps) :
                        (/\ val.steps[j].chunk = st.chunk
                         /\ \A k \in (i + 1)..(j - 1) : val.steps[k].chunk # st.chunk)
                            => val.steps[j].called
              /\ st.kind \in ReturnedKinds =>
                    /\ key \in DOMAIN validation_cache
                    /\ validation_cache[key] = st.result

\* the same chunk twice in one context: the first judgment raised and the
\* second call went to the backend again, which answered
C33_Witness ==
    /\ Len(val.steps) = 2
    /\ val.steps[1].chunk = val.steps[2].chunk
    /\ val.steps[1].kind = "raise"
    /\ val.steps[2].called
    /\ val.steps[2].kind = "text"
    /\ cache_key(val.query, val.steps[2].chunk) \in DOMAIN validation_cache

\* the positions of the chunks judged valid, and the k-th of them
ValidPositions == {i \in 1..Len(val.steps) : val.steps[i].result.is_valid}
KthValid(k) ==
    CHOOSE i \in ValidPositions : Cardinality({j \in ValidPositions : j <= i}) = k

\* C34: for every result of _validate_rag_results original_chunks ==
\* filtered_chunks + removed_chunks, and filtered_context holds exactly the
\* chunks judged valid, in their original order; a context without chunks
\* gives 0/0/0 and an empty filtered_context.
C34_CountsAndOrder ==
    val.n > 0 =>
        /\ val.original_chunks = Len(val.steps)
        /\ val.original_chunks = val.filtered_chunks + val.removed_chunks
        /\ val.filtered_chunks = Cardinality(ValidPositions)
        /\ Len(val.filtered_context) = Cardinality(ValidPositions)
        /\ \A k \in 1..Len(val.filtered_context) :
              val.filtered_context[k] = val.steps[KthValid(k)].chunk
        /\ val.steps = <<>> =>
              /\ val.original_chunks = 0 /\ val.filtered_chunks = 0 /\ val.removed_chunks = 0
              /\ val.filtered_context = <<>>

\* two chunks, the first judged invalid: only the second is left
C34_Witness ==
    /\ Len(val.steps) = 2
    /\ ~val.steps[1].result.is_valid
    /\ val.steps[2].result.is_valid
    /\ val.steps[1].chunk # val.steps[2].chunk
    /\ val.filtered_context = <<val.steps[2].chunk>>
    /\ val.removed_chunks = 1

IsPrefix(p, q) == Len(p) <= Len(q) /\ p = SubSeq(q, 1, Len(p))

\* C13 as stated: filtered_metadata is a positional prefix of the input
\* metadata and never has more entries than chunks were retained.
C13_PrefixAtMostRetained ==
    /\ IsPrefix(val.filtered_metadata, val.metadata)
    /\ Len(val.filtered_metadata) <= val.filtered_chunks

\* C13 amended: filtered_metadata is always a positional prefix of the input
\* metadata; when at least one chunk was removed it has at most filtered_chunks
\* entries (exactly the first min(filtered_chunks, len(metadata))); when no
\* chunk was removed it is the whole input metadata.
C13_PrefixTruncatedOnRemoval ==
    /\ IsPrefix(val.filtered_metadata, val.metadata)
    /\ val.filtered_chunks < val.original_chunks =>
          /\ Len(val.filtered_metadata) <= val.filtered_chunks
          /\ Len(val.filtered_metadata) = Min(val.filtered_chunks, Len(val.metadata))
    /\ val.filtered_chunks = val.original_chunks =>
          val.filtered_metadata = val.metadata

\* three metadata entries, two chunks, one of them removed: one entry is left
C13_Witness ==
    /\ Len(val.metadata) = 3
    /\ val.original_chunks = 2
    /\ val.removed_chunks = 1
    /\ val.filtered_metadata = <<"m1">>

(***************************************************************************)
(* Generate mode: the context gate of generate_question (validate_context) *)
(***************************************************************************)
MaxGenCalls == 1       \* generate-mode requests of one run
NumAlternatives == 4   \* alternative_queries

\* what the chat-completion call of validate_context can do: raise, return no
\* choices, return empty content, or return a text with ("verdict") or without
\* ("no_verdict") a "적합성:" line in its "=== 검증 결과 ===" section
GateJudgments == {"raise", "no_choices", "empty", "verdict", "no_verdict"}

\* validate_context: every failure of the call gives valid False with a
\* "reason"; a response text goes through _parse_validation_result, whose
\* result has no "reason" key: a "적합성:" line gives valid True ("적합" is part
\* of the label itself), a text without that line leaves valid False
validate_context(judgment) ==
    [valid |-> judgment = "verdict",
     has_reason |-> judgment \in {"raise", "no_choices", "empty"}]

\* lines 574-601: the alternatives from the i-th on; an outcome "none" is an
\* alternative query without candidates
RECURSIVE try_alternatives(_, _)
try_alternatives(i, outcomes) ==
    IF i > NumAlternatives THEN [adopted |-> 0, evaluated |-> <<>>]
    ELSE IF outcomes[i] = "none" THEN try_alternatives(i + 1, outcomes)
    ELSE IF validate_context(outcomes[i]).valid
    THEN [adopted |-> i, evaluated |-> <<[query |-> i, judgment |-> outcomes[i]]>>]
    ELSE LET rest == try_alternatives(i + 1, outcomes)
         IN  [adopted |-> rest.adopted,
              evaluated |-> <<[query |-> i, judgment |-> outcomes[i]]>> \o rest.evaluated]

NoGen == [n |-> 0, path |-> "", current_context |-> "None", primary |-> "none",
          primary_valid |-> FALSE, adopted |-> 0, evaluated |-> <<>>]

\* generate_question(exam_name, "generate") up to the choice of the prompt;
\* primary is "none" when search and filter leave no candidate
generate_question_generate(primary, outcomes) ==
    /\ gen.n < MaxGenCalls
    /\ UNCHANGED <<storeVars, selVars, validation_cache, val, segVars>>
    /\ gen' =
        IF primary = "none"
        THEN [NoGen EXCEPT !.n = gen.n + 1, !.path = "plain"]
        ELSE IF validate_context(primary).valid
        THEN [NoGen EXCEPT !.n = gen.n + 1, !.path = "rag", !.current_context = "primary",
                           !.primary = primary, !.primary_valid = TRUE]
        ELSE IF ~validate_context(primary).has_reason
        THEN \* line 564 reads validation_result['reason']: KeyError, raised to
             \* the caller (the try of generate_question starts at line 789)
             [NoGen EXCEPT !.n = gen.n + 1, !.path = "error", !.primary = primary]
        ELSE LET alt == try_alternatives(1, outcomes) IN
             [n |-> gen.n + 1,
              path |-> IF alt.adopted # 0 THEN "alt_rag" ELSE "plain",
              current_context |-> IF alt.adopted # 0 THEN "alternative" ELSE "None",
              primary |-> primary, primary_valid |-> FALSE,
              adopted |-> alt.adopted, evaluated |-> alt.evaluated]

GenInit == gen = NoGen

GenNext ==
    \E primary \in GateJudgments \cup {"none"},
       outcomes \in [1..NumAlternatives -> GateJudgments \cup {"none"}] :
        generate_question_generate(primary, outcomes)

\* C10: when the judgment call of the primary context validation fails (raises
\* or yields no text), validate_context reports the context as valid and the
\* retrieved context is used for generation.
C10_GateFailsOpen ==
    gen.primary \in FailedKinds =>
        /\ gen.primary_valid
        /\ gen.path = "rag"
        /\ gen.current_context = "primary"

\* C14: in generate mode, when validation rejects the primary context, the
\* alternative queries are tried in their fixed order (at most 4), the first
\* alternative whose context passes validation is adopted and no later one is
\* evaluated, the context-free path is taken exactly when every alternative
\* is rejected or has no candidates, and the rejection never surfaces as an
\* error to the caller.
C14_AlternativesInOrder ==
    (gen.n > 0 /\ gen.primary # "none" /\ ~gen.primary_valid) =>
        /\ gen.path # "error"
        /\ Len(gen.evaluated) <= NumAlternatives
        /\ \A i, j \in 1..Len(gen.evaluated) :
              i < j => gen.evaluated[i].query < gen.evaluated[j].query
        /\ \A i \in 1..Len(gen.evaluated) :
              validate_context(gen.evaluated[i].judgment).valid
                  <=> (gen.adopted # 0 /\ i = Len(gen.evaluated))
        /\ gen.adopted # 0 =>
              /\ gen.evaluated # <<>>
              /\ gen.evaluated[Len(gen.evaluated)].query = gen.adopted
              /\ gen.path = "alt_rag"
        /\ gen.path = "plain" <=> gen.adopted = 0

(***************************************************************************)
(* Question segmentation: PDFProcessor._extract_questions_from_text,       *)
(* PDFProcessor._extract_individual_questions_from_section and             *)
(* parse_linux_master_txt                                                  *)
(***************************************************************************)
MaxLines == 4          \* lines of a text

MaxFullNumber    == 999     \* 1 <= int(detected_number) <= 999
MaxSimpleNumber  == 200     \* 1 <= int(detected_number) <= 200
MaxSectionNumber == 1000    \* 1 <= int(detected_number) <= 1000
MinQuestionText  == 20      \* len(question_text) > 20

\* A line of text, as far as the parsers read it: form "blank" is an empty
\* line, "plain" a line no boundary pattern matches, "dot" a line "N. word"
\* (matched by every parser), "paren" a line "N) word" (matched only by the
\* patterns of _extract_questions_from_text); len is the line's length.
Line(form, num, len) == [form |-> form, num |-> num, len |-> len]
Lines == {Line("blank", 0, 0), Line("plain", 0, 3), Line("plain", 0, 30),
          Line("dot", 0, 4), Line("dot", 1, 4), Line("dot", 2, 4), Line("dot", 3, 4),
          Line("paren", 2, 4)}

\* full_text.split('\n') never gives an empty list
Texts == UNION {[1..n -> Lines] : n \in 1..MaxLines}

\* the number the first matching pattern captures, when it is in range; 0 when
\* no pattern matches or the number is out of range
detect(mode, line) ==
    CASE mode = "full" ->
            IF line.form \in {"dot", "paren"} /\ 1 <= line.num /\ line.num <= MaxFullNumber
            THEN line.num ELSE 0
      [] mode = "simple" ->
            IF line.form = "dot" /\ 1 <= line.num /\ line.num <= MaxSimpleNumber
            THEN line.num ELSE 0
      [] mode = "section" ->
            IF line.form = "dot" /\ 1 <= line.num /\ line.num <= MaxSectionNumber
            THEN line.num ELSE 0

\* stage 1 (lines 191-222): the matches in scan order, line_idx from 0
RECURSIVE potential_questions(_, _)
potential_questions(lines, line_idx) ==
    IF line_idx >= Len(lines) THEN <<>>
    ELSE LET line == lines[line_idx + 1]
             rest == potential_questions(lines, line_idx + 1)
         IN  IF line.form = "blank" \/ detect("full", line) = 0 THEN rest
             ELSE <<[line_idx |-> line_idx, number |-> detect("full", line)]>> \o rest

\* stage 2 with the later occurrence of a number replacing the earlier one
RECURSIVE verified_questions_last(_)
verified_questions_last(potential) ==
    IF potential = <<>> THEN <<>>
    ELSE IF \E j \in 2..Len(potential) : potential[j].number = potential[1].number
    THEN verified_questions_last(Tail(potential))
    ELSE <<potential[1]>> \o verified_questions_last(Tail(potential))

\* stage 2 (lines 229-240): the first occurrence of every number is kept
RECURSIVE verified_questions(_)
verified_questions(potential) ==
    IF potential = <<>> THEN <<>>
    ELSE LET init == verified_questions(SubSeq(potential, 1, Len(potential) - 1))
             q    == potential[Len(potential)]
         IN  IF \E j \in 1..Len(init) : init[j].number = q.number
             THEN init ELSE Append(init, q)

\* the matches left in scan order
sort_by_number_none(qs) == qs

\* verified_questions.sort(key=number) (line 243): a stable insertion sort
RECURSIVE sort_by_number(_)
sort_by_number(qs) ==
    IF qs = <<>> THEN <<>>
    ELSE LET init  == sort_by_number(SubSeq(qs, 1, Len(qs) - 1))
             q     == qs[Len(qs)]
             below == SelectSeq(init, LAMBDA x : x.number <= q.number)
             above == SelectSeq(init, LAMBDA x : x.number > q.number)
         IN  below \o <<q>> \o above

\* the end line taken as the next question's own line
end_line_idx_inclusive(verified, i, nlines) ==
    IF i + 1 <= Len(verified) THEN verified[i + 1].line_idx ELSE nlines - 1

\* lines 251-254: the end line of the i-th question of the sorted list
end_line_idx(verified, i, nlines) ==
    IF i + 1 <= Len(verified) THEN verified[i + 1].line_idx - 1 ELSE nlines - 1

\* the non-blank lines of range(start, min(end + 1, len(lines)))
question_lines(lines, start, end) ==
    {k \in start..Min(end, Len(lines) - 1) : lines[k + 1].form # "blank"}

RECURSIVE SumLen(_, _)
SumLen(lines, idxs) ==
    IF idxs = {} THEN 0
    ELSE LET k == CHOOSE x \in idxs : TRUE
         IN  lines[k + 1].len + SumLen(lines, idxs \ {k})

\* len('\n'.join(question_lines))
text_len(lines, idxs) ==
    IF idxs = {} THEN 0 ELSE SumLen(lines, idxs) + Cardinality(idxs) - 1

\* stage 3 (lines 247-272)
RECURSIVE questions_from(_, _, _)
questions_from(lines, verified, i) ==
    IF i > Len(verified) THEN <<>>
    ELSE LET start == verified[i].line_idx
             end   == end_line_idx(verified, i, Len(lines))
             qls   == question_lines(lines, start, end)
             rest  == questions_from(lines, verified, i + 1)
         IN  IF qls # {}
             THEN <<[number |-> verified[i].number, text_len |-> text_len(lines, qls),
                     start_line |-> start, end_line |-> end]>> \o rest
             ELSE rest

\* _extract_questions_from_text
extract_questions_from_text(lines) ==
    questions_from(lines, sort_by_number(verified_questions(potential_questions(lines, 0))), 1)

\* the length check of the two line-by-line parsers dropped
keep_question_any(cur) == cur.count > 0

\* `if current_question and current_lines: ... if len(question_text) > 20`
keep_question(cur) == cur.count > 0 /\ cur.len > MinQuestionText

NoCurrent == [number |-> 0, len |-> 0, count |-> 0]

flush(cur, out) ==
    IF cur.number # 0 /\ keep_question(cur)
    THEN Append(out, [number |-> cur.number, text_len |-> cur.len,
                      start_line |-> 0, end_line |-> 0])
    ELSE out

\* the loop shared by _extract_individual_questions_from_section (lines
\* 806-865) and parse_linux_master_txt (lines 36-81): cur is the question
\* being collected, out the questions stored so far
RECURSIVE parse_lines(_, _, _, _, _)
parse_lines(mode, lines, i, cur, out) ==
    IF i > Len(lines) THEN flush(cur, out)
    ELSE LET line == lines[i] IN
         IF line.form = "blank" THEN parse_lines(mode, lines, i + 1, cur, out)
         ELSE IF detect(mode, line) # 0
         THEN parse_lines(mode, lines, i + 1,
                          [number |-> detect(mode, line), len |-> line.len, count |-> 1],
                          flush(cur, out))
         ELSE IF cur.number # 0
         THEN parse_lines(mode, lines, i + 1,
                          [cur EXCEPT !.len = @ + 1 + line.len, !.count = @ + 1], out)
         ELSE parse_lines(mode, lines, i + 1, cur, out)

extract_individual_questions_from_section(lines) ==
    parse_lines("section", lines, 1, NoCurrent, <<>>)

parse_linux_master_txt(lines) ==
    parse_lines("simple", lines, 1, NoCurrent, <<>>)

NoSeg == [pc |-> "idle", mode |-> "", lines |-> <<>>, questions |-> <<>>]
NoChk == [pc |-> "idle", lines |-> <<>>, chunks |-> <<>>]

\* PDFProcessor.__init__: empty lists and an empty index, nothing is loaded
NoPdf == [documents |-> <<>>, metadata |-> <<>>, rows |-> <<>>, n |-> 0]

\* an empty extracted_questions/ and no get_extracted_questions call yet
NoDir  == [files |-> {}, n |-> 0]
NoPick == [pc |-> "idle", subject |-> "", files |-> <<>>, questions |-> <<>>]

\* process_pdf, lines 107-115: the text goes through _extract_questions_from_text
segment_full ==
    /\ seg.pc = "input"
    /\ seg' = [seg EXCEPT !.pc = "done", !.mode = "full",
                          !.questions = extract_questions_from_text(seg.lines)]
    /\ UNCHANGED <<chk, pdf, qdir, pick>>
    /\ UNCHANGED <<storeVars, selVars, valVars>>

segment_section ==
    /\ seg.pc = "input"
    /\ seg' = [seg EXCEPT !.pc = "done", !.mode = "section",
                          !.questions = extract_individual_questions_from_section(seg.lines)]
    /\ UNCHANGED <<chk, pdf, qdir, pick>>
    /\ UNCHANGED <<storeVars, selVars, valVars>>

segment_simple ==
    /\ seg.pc = "input"
    /\ seg' = [seg EXCEPT !.pc = "done", !.mode = "simple",
                          !.questions = parse_linux_master_txt(seg.lines)]
    /\ UNCHANGED <<chk, pdf, qdir, pick>>
    /\ UNCHANGED <<storeVars, selVars, valVars>>

SegIdle == seg = NoSeg /\ chk = NoChk /\ pdf = NoPdf /\ qdir = NoDir /\ pick = NoPick

SegInit ==
    /\ \E text \in Texts : seg = [NoSeg EXCEPT !.pc = "input", !.lines = text]
    /\ chk = NoChk
    /\ pdf = NoPdf
    /\ qdir = NoDir
    /\ pick = NoPick

SegNext == segment_full \/ segment_section \/ segment_simple

(***************************************************************************)
(* The chunk builder: PDFProcessor._extract_and_chunk_text_from_text       *)
(***************************************************************************)
MaxChunkLines == 4     \* lines of a text given to the chunk builder

MinChunkText == 100    \* len(chunk_text.strip()) >= 100
MinTableText == 50     \* len(table_text.strip()) >= 50
ChunkSize    == 1000   \* current_length >= 1000
PipeMinLen   == 10     \* '|' in line and len(line.strip()) > 10

\* A line as the chunk builder reads it: form "blank" is an empty line, "text"
\* a line without '|', "pipe" a line that starts with '|', "inner" a line that
\* holds a '|' after its first character; len is the line's length.
ChunkLine(form, len) == [form |-> form, len |-> len]
ChunkLines == {ChunkLine("blank", 0), ChunkLine("text", 60), ChunkLine("text", 600),
               ChunkLine("pipe", 30), ChunkLine("pipe", 60),
               ChunkLine("inner", 5), ChunkLine("inner", 30)}
ChunkTexts == UNION {[1..n -> ChunkLines] : n \in 1..MaxChunkLines}

\* line 426
is_table_line(line) ==
    line.form = "pipe" \/ (line.form = "inner" /\ line.len > PipeMinLen)

\* len('\n'.join(lines[lo..hi]).strip()), line indexes from 0: blank
\* lines at either end are stripped away
RECURSIVE JoinLen(_, _, _)
JoinLen(lines, lo, hi) ==
    IF lo > hi THEN 0
    ELSE lines[lo + 1].len + (IF lo < hi THEN 1 + JoinLen(lines, lo + 1, hi) ELSE 0)

stripped_len(lines, lo, hi) ==
    LET solid == {k \in lo..hi : lines[k + 1].form # "blank"} IN
    IF solid = {} THEN 0
    ELSE JoinLen(lines, CHOOSE k \in solid : \A j \in solid : k <= j,
                        CHOOSE k \in solid : \A j \in solid : j <= k)

Chunk(tbl, lo, hi, len) ==
    [is_table |-> tbl, first |-> lo, last |-> hi, len |-> len]

\* a buffer of at least 100 stripped characters becomes a chunk
flush_buffer(lines, b, chunks) ==
    IF b.first <= b.last /\ stripped_len(lines, b.first, b.last) >= MinChunkText
    THEN Append(chunks, Chunk(FALSE, b.first, b.last, stripped_len(lines, b.first, b.last)))
    ELSE chunks

\* the table region with its first line left out
table_lines_tail(table_start_line, i) == [first |-> table_start_line + 1, last |-> i - 1]

\* line 451: table_lines = lines[table_start_line:i]
table_lines(table_start_line, i) == [first |-> table_start_line, last |-> i - 1]

\* lines 448-463: a table of at least 50 stripped characters becomes a chunk
flush_table(lines, table_start_line, i, chunks) ==
    LET t == table_lines(table_start_line, i) IN
    IF stripped_len(lines, t.first, t.last) >= MinTableText
    THEN Append(chunks, Chunk(TRUE, t.first, t.last, stripped_len(lines, t.first, t.last)))
    ELSE chunks

\* the current line appended whatever in_table is
appends_line_always(in_table) == TRUE

\* line 468: `if not in_table`
appends_line(in_table) == ~in_table

EmptyBuffer(i) == [first |-> i, last |-> i - 1, length |-> 0]

\* the loop of lines 424-486 from line i on, then lines 488-501; st holds
\* current_chunk_lines (as the range b of line indexes), current_length,
\* in_table, table_start_line and chunks
RECURSIVE chunk_loop(_, _, _)
chunk_loop(lines, i, st) ==
    IF i >= Len(lines)
    THEN flush_buffer(lines, st.b, st.chunks)
    ELSE LET tbl == is_table_line(lines[i + 1])
             s1  == IF tbl /\ ~st.in_table
                    THEN [st EXCEPT !.in_table = TRUE, !.table_start_line = i,
                                    !.chunks = flush_buffer(lines, st.b, st.chunks),
                                    !.b = EmptyBuffer(i)]
                    ELSE IF ~tbl /\ st.in_table
                    THEN [st EXCEPT !.in_table = FALSE,
                                    !.chunks = flush_table(lines, st.table_start_line, i, st.chunks),
                                    !.b = EmptyBuffer(i)]
                    ELSE st
             s2  == IF appends_line(s1.in_table)
                    THEN LET b == [first |-> IF s1.b.first > s1.b.last THEN i ELSE s1.b.first,
                                   last |-> i,
                                   length |-> s1.b.length + lines[i + 1].len + 1]
                         IN  IF b.length >= ChunkSize
                             THEN [s1 EXCEPT !.chunks = flush_buffer(lines, b, s1.chunks),
                                             !.b = EmptyBuffer(i + 1)]
                             ELSE [s1 EXCEPT !.b = b]
                    ELSE s1
         IN  chunk_loop(lines, i + 1, s2)

extract_and_chunk_text_from_text(lines) ==
    chunk_loop(lines, 0, [b |-> EmptyBuffer(0), in_table |-> FALSE,
                          table_start_line |-> -1, chunks |-> <<>>])

\* process_pdf, line 118
chunk_text ==
    /\ chk.pc = "input"
    /\ chk' = [chk EXCEPT !.pc = "done",
                          !.chunks = extract_and_chunk_text_from_text(chk.lines)]
    /\ UNCHANGED <<storeVars, selVars, valVars, seg, pdf, qdir, pick>>

ChkInit ==
    /\ \E text \in ChunkTexts : chk = [NoChk EXCEPT !.pc = "input", !.lines = text]
    /\ seg = NoSeg
    /\ pdf = NoPdf
    /\ qdir = NoDir
    /\ pick = NoPick

ChkNext == chunk_text

(***************************************************************************)
(* PDFProcessor.process_pdf next to the VectorStore: the two module-level  *)
(* singletons are constructed on the same directory "faiss_vector_db"      *)
(***************************************************************************)
MaxPdfCalls == 1       \* process_pdf calls

\* the markdown texts of the uploaded PDFs: one without a chunk, one with a
\* text chunk, one with a text chunk and a table
PdfTexts == {<<ChunkLine("text", 60)>>,
             <<ChunkLine("text", 600)>>,
             <<ChunkLine("text", 600), ChunkLine("pipe", 60), ChunkLine("text", 60)>>}

\* chunk_text.strip() of a chunk, named by the lines it spans
ChunkTextOf(c) == "L" \o Digits[c.first + 1] \o "-" \o Digits[c.last + 1]

\* the dict the chunk builder appends for the k-th chunk (k from 0)
ChunkMeta(subject, k, c) ==
    [id |-> <<"md5", subject, k, ChunkTextOf(c)>>, type |-> "<no type key>",
     subject |-> subject, embedding_id |-> 0, text |-> ChunkTextOf(c)]

\* _vectorize_and_store: index.add of all embeddings, then per chunk
\* embedding_id = len(self.documents) + i with documents growing in the loop
vectorize_and_store(p, subject, chunks) ==
    [p EXCEPT
        !.rows      = @ \o [i \in 1..Len(chunks) |-> Embed(ChunkTextOf(chunks[i]))],
        !.documents = @ \o [i \in 1..Len(chunks) |-> ChunkTextOf(chunks[i])],
        !.metadata  = @ \o [i \in 1..Len(chunks) |->
                              [ChunkMeta(subject, i - 1, chunks[i]) EXCEPT
                                  !.embedding_id = Len(p.documents) + 2 * (i - 1)]]]

\* _save_metadata: metadata.json gets PDFProcessor's metadata, faiss_index.bin
\* its index when it has one
save_metadata(p, d, model) ==
    IF model
    THEN [exists |-> TRUE, metadata |-> p.metadata, index |-> p.rows]
    ELSE [d EXCEPT !.metadata = p.metadata]

\* process_pdf (lines 84-137); the PdfTexts hold no question marker, so
\* extracted_questions is empty and _save_questions is not called (lines 111-115)
process_pdf(subject, lines) ==
    LET chunks == extract_and_chunk_text_from_text(lines)
        p == IF embedding_model THEN vectorize_and_store(pdf, subject, chunks) ELSE pdf
    IN
    /\ pdf.n < MaxPdfCalls
    /\ IF chunks = <<>>
       THEN /\ pdf' = [pdf EXCEPT !.n = @ + 1]
            /\ disk' = disk
            /\ last' = [op |-> "process_pdf", arg |-> subject, ret |-> "error"]
       ELSE /\ pdf' = [p EXCEPT !.n = @ + 1]
            /\ disk' = save_metadata(p, disk, embedding_model)
            /\ last' = [op |-> "process_pdf", arg |-> subject, ret |-> "success"]
    /\ UNCHANGED <<embedding_model, index, documents, metadata, clock>>
    /\ UNCHANGED <<selVars, valVars, seg, chk, qdir, pick>>

\* one process holding both singletons: VectorStore adds and process_pdf
DirNext ==
    \/ \E s \in Subjects, q \in Questions : add_exam_question(s, q)
    \/ \E t \in Titles, c \in Contents, s \in Subjects : add_study_material(t, c, s)
    \/ \E u \in Users, s \in Subjects, q \in Contents : add_user_question(u, s, q)
    \/ \E s \in Subjects, text \in PdfTexts : process_pdf(s, text)

\* the ids of the entries of a metadata list
IdsOf(meta) == {meta[i].id : i \in 1..Len(meta)}

\* C26: the persistence directory has one writer, so after any sequence of
\* VectorStore adds and process_pdf calls the persisted snapshot contains
\* every entry that was added, by either component.
C26_SnapshotHasEveryEntry ==
    /\ IdsOf(metadata) \subseteq IdsOf(disk.metadata)
    /\ IdsOf(pdf.metadata) \subseteq IdsOf(disk.metadata)

(***************************************************************************)
(* The question files of extracted_questions/: PDFProcessor._save_questions,*)
(* PDFProcessor._parse_questions_from_txt and                              *)
(* PDFProcessor.get_extracted_questions.  A file is the list of its lines  *)
(* (content.split('\n')); a record's text is the list of its lines.        *)
(***************************************************************************)
MaxSaves == 2          \* _save_questions calls

\* ASCII stand-ins for the literals of the file format
BlockDelimiter == "=== Q "       \* '=== 문제 '
SourceTag      == "# src:"       \* '# 출처:'
DateTag        == "# date:"      \* '# 추출일:'
ExtractionDate == "d"            \* datetime.now() of the writing call

\* exam names, and the names of the uploaded files
ExamNames     == {"A", "B", "A B"}
UploadedFiles == {"A.pdf", "x.pdf", "A B.pdf"}

\* records as _extract_questions_from_text returns them: number a digit
\* string, text the non-empty lines of the span ('\r' stripped, nothing else)
QRecord(number, text) == [number |-> number, text |-> text]
QuestionLists ==
    {<<QRecord("1", <<"1. a">>)>>,
     <<QRecord("1", <<"1. a">>), QRecord("2", <<"2. b", "c">>)>>,
     <<QRecord("2", <<"2. b", "c">>), QRecord("3", <<"  3. c ", " ">>)>>,
     <<QRecord("1", <<"1. a", "# src: z">>), QRecord("4", <<"4. d">>)>>}

\* `pat in s`
Contains(s, pat) ==
    \E i \in 0..(Len(s) - Len(pat)) : SubSeq(s, i + 1, i + Len(pat)) = pat

\* s.startswith(pat)
StartsWith(s, pat) == Len(s) >= Len(pat) /\ SubSeq(s, 1, Len(pat)) = pat

\* s.replace(pat, '')
RECURSIVE str_remove(_, _)
str_remove(s, pat) ==
    IF Len(s) < Len(pat) \/ Len(s) = 0 THEN s
    ELSE IF StartsWith(s, pat) THEN str_remove(SubSeq(s, Len(pat) + 1, Len(s)), pat)
    ELSE SubSeq(s, 1, 1) \o str_remove(SubSeq(s, 2, Len(s)), pat)

RECURSIVE lstrip(_)
lstrip(s) ==
    IF Len(s) > 0 /\ SubSeq(s, 1, 1) = " " THEN lstrip(SubSeq(s, 2, Len(s))) ELSE s

RECURSIVE rstrip(_)
rstrip(s) ==
    IF Len(s) > 0 /\ SubSeq(s, Len(s), Len(s)) = " "
    THEN rstrip(SubSeq(s, 1, Len(s) - 1)) ELSE s

\* s.strip() of one line
strip(s) == lstrip(rstrip(s))

DigitChars == {"0", "1", "2", "3", "4", "5", "6", "7", "8", "9"}

\* s.isdigit()
isdigit(s) == Len(s) > 0 /\ \A i \in 1..Len(s) : SubSeq(s, i, i) \in DigitChars

\* int(s) of the numbers the records carry
int(s) == CHOOSE i \in 1..Len(Digits) : Digits[i] = s

\* '\n'.join(lines).strip(), as lines: blank lines at both ends go, the first
\* line loses its leading and the last its trailing whitespace
RECURSIVE strip_lines(_)
strip_lines(lines) ==
    IF lines = <<>> THEN <<>>
    ELSE IF strip(lines[1]) = "" THEN strip_lines(Tail(lines))
    ELSE IF strip(lines[Len(lines)]) = "" THEN strip_lines(SubSeq(lines, 1, Len(lines) - 1))
    ELSE IF Len(lines) = 1 THEN <<strip(lines[1])>>
    ELSE <<lstrip(lines[1])>> \o SubSeq(lines, 2, Len(lines) - 1)
            \o <<rstrip(lines[Len(lines)])>>

\* the block _save_questions writes for one record (lines 400-401)
RECURSIVE blocks(_)
blocks(questions) ==
    IF questions = <<>> THEN <<>>
    ELSE <<BlockDelimiter \o questions[1].number \o " ===">> \o questions[1].text
            \o <<"">> \o blocks(Tail(questions))

\* the name of the file _save_questions writes (lines 387-391)
questions_file(original_filename) ==
    str_remove(original_filename, ".pdf") \o "_questions.txt"

\* the lines of the file _save_questions writes (lines 394-401)
file_lines(questions, subject, original_filename) ==
    <<"# " \o subject \o " exams",
      SourceTag \o " " \o original_filename,
      DateTag \o " " \o ExtractionDate,
      "# total: " \o Digits[Len(questions)],
      "">> \o blocks(questions) \o <<"">>

File(name, lines, subject, source, questions) ==
    [name |-> name, lines |-> lines,
     \* what the writing call was given, kept to state the claims
     subject |-> subject, source |-> source, questions |-> questions]

\* _save_questions: open(txt_file, 'w') replaces a file of the same name
save_questions(questions, subject, original_filename) ==
    LET name == questions_file(original_filename) IN
    /\ qdir.n < MaxSaves
    /\ qdir' = [files |-> {f \in qdir.files : f.name # name} \cup
                          {File(name, file_lines(questions, subject, original_filename),
                                subject, original_filename, questions)},
                n |-> qdir.n + 1]
    /\ UNCHANGED <<seg, chk, pdf, pick>>
    /\ UNCHANGED <<storeVars, selVars, valVars>>

\* lines 718-724: the value of the last line that starts with the tag
RECURSIVE tagged(_, _, _)
tagged(lines, tag, default) ==
    IF lines = <<>> THEN default
    ELSE LET line == lines[Len(lines)] IN
         IF StartsWith(line, tag)
         THEN strip(str_remove(line, tag))
         ELSE tagged(SubSeq(lines, 1, Len(lines) - 1), tag, default)

\* content.split('=== 문제 ')[1:], each section split into lines; the delimiter
\* stands at the start of a line in every file written from QuestionLists
RECURSIVE question_sections(_, _)
question_sections(lines, current) ==
    IF lines = <<>> THEN (IF current = <<>> THEN <<>> ELSE <<current>>)
    ELSE IF StartsWith(lines[1], BlockDelimiter)
    THEN (IF current = <<>> THEN <<>> ELSE <<current>>) \o
         question_sections(Tail(lines),
             <<SubSeq(lines[1], Len(BlockDelimiter) + 1, Len(lines[1]))>>)
    ELSE question_sections(Tail(lines),
             IF current = <<>> THEN <<>> ELSE Append(current, lines[1]))

\* lines 736-777: the record of one section, or none
section_records(section, source_file, extraction_date) ==
    LET first_line      == strip(section[1])
        clean_line      == strip(str_remove(first_line, "="))
        section_content == strip_lines(Tail(section))
    IN  IF first_line = "" \/ ~isdigit(clean_line) \/ section_content = <<>>
        THEN <<>>
        ELSE <<[number |-> clean_line, text |-> section_content,
                source_file |-> source_file, extraction_date |-> extraction_date,
                start_line |-> 0, end_line |-> 0]>>

RECURSIVE records_of(_, _, _)
records_of(sections, source_file, extraction_date) ==
    IF sections = <<>> THEN <<>>
    ELSE section_records(sections[1], source_file, extraction_date)
            \o records_of(Tail(sections), source_file, extraction_date)

\* _parse_questions_from_txt
parse_questions_from_txt(lines) ==
    records_of(question_sections(lines, <<>>),
               tagged(lines, SourceTag, "unknown"), tagged(lines, DateTag, ""))

\* lines 669-675: the exam name is looked for inside the file name, with and
\* without blanks (no name here holds a full-width blank)
matches(subject, name) ==
    \/ Contains(str_remove(name, " "), str_remove(subject, " "))
    \/ Contains(name, subject)

\* questions.sort(key=int(number)) (line 691): a stable insertion sort
RECURSIVE sort_questions(_)
sort_questions(qs) ==
    IF qs = <<>> THEN <<>>
    ELSE LET init  == sort_questions(SubSeq(qs, 1, Len(qs) - 1))
             q     == qs[Len(qs)]
             below == SelectSeq(init, LAMBDA x : int(x.number) <= int(q.number))
             above == SelectSeq(init, LAMBDA x : int(x.number) > int(q.number))
         IN  below \o <<q>> \o above

\* the orders in which glob may list a set of files
Orders(fs) ==
    {o \in [1..Cardinality(fs) -> fs] : \A i, j \in 1..Cardinality(fs) : i # j => o[i] # o[j]}

RECURSIVE load_files(_)
load_files(order) ==
    IF order = <<>> THEN <<>>
    ELSE parse_questions_from_txt(order[1].lines) \o load_files(Tail(order))

\* get_extracted_questions: the matching files, in glob's order, are parsed
\* and the records sorted by number
get_extracted_questions(subject) ==
    /\ \E order \in Orders({f \in qdir.files : matches(subject, f.name)}) :
          pick' = [pc |-> "done", subject |-> subject,
                   files |-> [i \in 1..Len(order) |-> order[i].name],
                   questions |-> sort_questions(load_files(order))]
    /\ UNCHANGED <<seg, chk, pdf, qdir>>
    /\ UNCHANGED <<storeVars, selVars, valVars>>

UploadNext ==
    \/ \E qs \in QuestionLists, s \in ExamNames, f \in UploadedFiles : save_questions(qs, s, f)
    \/ \E s \in ExamNames : get_extracted_questions(s)

\* the names of the files written for an exam
FilesOf(subject) == {f.name : f \in {g \in qdir.files : g.subject = subject}}

\* C31: the candidates get_extracted_questions returns for exam T come from
\* exactly the files written by uploads to T: every such file is read, and no
\* file written for another exam is.
C31_PoolIsTenantUploads ==
    pick.pc = "done" =>
        {pick.files[i] : i \in 1..Len(pick.files)} = FilesOf(pick.subject)

\* the (number, text) pairs of a list of records, and their source names
Pairs(qs) == [i \in 1..Len(qs) |-> <<qs[i].number, qs[i].text>>]
Sources(qs) == {qs[i].source_file : i \in 1..Len(qs)}

\* no line of a record's text holds the block delimiter
DelimiterFree(qs) ==
    \A i \in 1..Len(qs) : \A k \in 1..Len(qs[i].text) :
        ~Contains(qs[i].text[k], BlockDelimiter)

\* C36: for records whose texts do not contain the block delimiter, reading a
\* file written by _save_questions back with _parse_questions_from_txt gives
\* the same (number, text) pairs in the same order, each with source_file
\* equal to the source name written in the header.
C36_RoundTrip ==
    \A f \in qdir.files :
        DelimiterFree(f.questions) =>
            /\ Pairs(parse_questions_from_txt(f.lines)) = Pairs(f.questions)
            /\ Sources(parse_questions_from_txt(f.lines)) = {f.source}


(* mode, reset_question_history, remove_exam, and generate mode beside     *)
(***************************************************************************)
MaxHistPool == 2       \* candidates of tenant A in this specification

\* `del self.recent_questions[exam_name]` done for every exam
forget_history_all(keys, t) == {}

\* lines 145-147: `del self.recent_questions[exam_name]`
forget_history(keys, t) == keys \ {t}

\* remove_exam (lines 110-161): the question files whose name contains the
\* exam name are deleted (the pool of the exam is in files named after it),
\* the exam's vector entries, its entry of self.exams and its history go
remove_exam(t) ==
    /\ t \in exams
    /\ qdir' = [qdir EXCEPT !.files = {f \in @ : ~Contains(f.name, t)}]
    /\ pool' = [pool EXCEPT ![t] = <<>>]
    /\ Commit(delete_exam_data_in(Store, t))
    /\ last' = [op |-> "delete_exam_data", arg |-> t, ret |-> "True"]
    /\ exams' = exams \ {t}
    /\ recent_keys' = forget_history(recent_keys, t)
    /\ recent_questions' = [x \in Tenants |->
                               IF x \in forget_history(recent_keys, t)
                               THEN recent_questions[x] ELSE <<>>]
    /\ served' = [served EXCEPT ![t] = <<>>]
    /\ sel' = NoSel
    /\ UNCHANGED <<calls, conc, embedding_model, clock>>
    /\ UNCHANGED <<valVars, seg, chk, pdf, pick>>

\* a generate-mode request whose alternatives all end the same way
generate_request ==
    \E primary \in GateJudgments \cup {"none"}, j \in GateJudgments \cup {"none"} :
        generate_question_generate(primary, [i \in 1..NumAlternatives |-> j])

HistInit == SelInit /\ Len(pool["A"]) <= MaxHistPool

HistNext ==
    \/ \E t \in Tenants : generate_question_exact(t)
    \/ \E t \in Tenants : reset_question_history(t)
    \/ \E t \in Tenants : remove_exam(t)
    \/ generate_request

\* the recency history of tenant t is what it was
HistoryKept(t) ==
    /\ recent_questions'[t] = recent_questions[t]
    /\ (t \in recent_keys') = (t \in recent_keys)

\* C32: an exact-mode selection, a reset_question_history or a remove_exam for
\* one tenant leaves the recency history of every other tenant unchanged, and
\* a generate-mode request changes no history.
C32_HistoriesIsolated ==
    [][/\ \A a \in Tenants :
             (generate_question_exact(a) \/ reset_question_history(a) \/ remove_exam(a))
                 => \A t \in Tenants \ {a} : HistoryKept(t)
       /\ generate_request => \A t \in Tenants : HistoryKept(t)]_vars

\* tenant A's exam was removed while tenant B has a history
C32_Witness ==
    /\ "A" \notin exams
    /\ "B" \in recent_keys
    /\ recent_questions["B"] # <<>>

(***************************************************************************)
(* Claims about the chunk builder (specification ChkSpec)                  *)
(***************************************************************************)
TableAt(k) == is_table_line(chk.lines[k + 1])
LastLine == Len(chk.lines) - 1

\* [lo, hi] is a maximal run of consecutive table lines
IsTableRun(lo, hi) ==
    /\ lo <= hi
    /\ \A k \in lo..hi : TableAt(k)
    /\ lo > 0 => ~TableAt(lo - 1)
    /\ hi < LastLine => ~TableAt(hi + 1)

\* C21: the chunk builder never splits a table: every chunk flagged is_table
\* is one whole maximal run of table lines, a chunk without the flag holds no
\* table line, and no table run is divided over two chunks.
C21_TablesAtomic ==
    chk.pc = "done" =>
        /\ \A c \in 1..Len(chk.chunks) :
              IF chk.chunks[c].is_table
              THEN IsTableRun(chk.chunks[c].first, chk.chunks[c].last)
              ELSE \A k \in chk.chunks[c].first..chk.chunks[c].last : ~TableAt(k)
        /\ \A c, d \in 1..Len(chk.chunks) :
              c # d => \A k \in 0..LastLine :
                  ~(/\ TableAt(k)
                    /\ chk.chunks[c].first <= k /\ k <= chk.chunks[c].last
                    /\ chk.chunks[d].first <= k /\ k <= chk.chunks[d].last)

\* a text chunk flushed on entering a table, then the two-line table kept whole
C21_Witness ==
    /\ chk.pc = "done"
    /\ chk.lines = <<ChunkLine("text", 600), ChunkLine("pipe", 30),
                     ChunkLine("pipe", 60), ChunkLine("text", 60)>>
    /\ \E c \in 1..Len(chk.chunks) :
          chk.chunks[c].is_table /\ chk.chunks[c].last = chk.chunks[c].first + 1
    /\ \E c \in 1..Len(chk.chunks) : ~chk.chunks[c].is_table

\* C30: every maximal run of table lines with at least 50 characters,
\* including a run that reaches the last line of the text, is emitted as
\* exactly one chunk flagged is_table.
C30_EveryTableEmitted ==
    chk.pc = "done" =>
        \A lo, hi \in 0..LastLine :
            (IsTableRun(lo, hi) /\ stripped_len(chk.lines, lo, hi) >= MinTableText) =>
                Cardinality({c \in 1..Len(chk.chunks) :
                                /\ chk.chunks[c].is_table
                                /\ chk.chunks[c].first = lo
                                /\ chk.chunks[c].last = hi}) = 1

(***************************************************************************)
(* Claims about segmentation (specification SegSpec)                       *)
(***************************************************************************)
FullDone == seg.pc = "done" /\ seg.mode = "full"

\* the line indexes (from 0) a boundary pattern matches with a number in range
Matched == {k \in 0..Len(seg.lines) - 1 : detect("full", seg.lines[k + 1]) # 0}
NumberAt(k) == detect("full", seg.lines[k + 1])
IsFirstOccurrence(k) == \A j \in Matched : NumberAt(j) = NumberAt(k) => k <= j
Covering(k) == {i \in 1..Len(seg.questions) :
                   seg.questions[i].start_line <= k /\ k <= seg.questions[i].end_line}

\* "1. a\n1. b\n2. c"
TextDuplicateOne == <<Line("dot", 1, 4), Line("dot", 1, 4), Line("dot", 2, 4)>>

\* C15: segmentation keeps the first occurrence of every question number: each
\* record starts at the first line matched with its number, no two records
\* carry the same number, a later line matching an already seen number starts
\* no record and lies inside some record's span, and "1. a\n1. b\n2. c" gives
\* exactly the records 1 (lines 0-1) and 2 (line 2).
C15_FirstOccurrenceKept ==
    FullDone =>
        /\ \A i \in 1..Len(seg.questions) :
              /\ seg.questions[i].start_line \in Matched
              /\ NumberAt(seg.questions[i].start_line) = seg.questions[i].number
              /\ IsFirstOccurrence(seg.questions[i].start_line)
        /\ \A i, j \in 1..Len(seg.questions) :
              i # j => seg.questions[i].number # seg.questions[j].number
        /\ \A k \in Matched :
              ~IsFirstOccurrence(k) =>
                  /\ \A i \in 1..Len(seg.questions) : seg.questions[i].start_line # k
                  /\ Covering(k) # {}
        /\ seg.lines = TextDuplicateOne =>
              seg.questions = <<[number |-> 1, text_len |-> 9, start_line |-> 0, end_line |-> 1],
                                [number |-> 2, text_len |-> 4, start_line |-> 2, end_line |-> 2]>>

C15_Witness ==
    /\ FullDone
    /\ seg.lines = TextDuplicateOne
    /\ Len(seg.questions) = 2
    /\ seg.questions[1].end_line = 1

\* the surviving matches in scan order
Surviving == verified_questions(potential_questions(seg.lines, 0))

\* C16: every surviving match has a record whose span runs from its own start
\* line to the line before the start line of the next surviving match in scan
\* order, or to the end of the text for the last one in scan order.
C16_SpanToNextInScanOrder ==
    FullDone =>
        \A i \in 1..Len(Surviving) :
            \E r \in 1..Len(seg.questions) :
                /\ seg.questions[r].number = Surviving[i].number
                /\ seg.questions[r].start_line = Surviving[i].line_idx
                /\ seg.questions[r].end_line =
                       IF i < Len(Surviving) THEN Surviving[i + 1].line_idx - 1
                       ELSE Len(seg.lines) - 1

\* C17: no line index lies within the [start_line, end_line] span of two
\* different records.
C17_NonOverlapping ==
    FullDone => \A k \in 0..Len(seg.lines) - 1 : Cardinality(Covering(k)) <= 1

\* the markers are unique and ascending in scan order and the first line has one
AscendingFromFirstLine ==
    LET potential == potential_questions(seg.lines, 0) IN
    /\ potential # <<>>
    /\ potential[1].line_idx = 0
    /\ \A i, j \in 1..Len(potential) : i < j => potential[i].number < potential[j].number

\* C18: a text with n unique ascending markers starting on its first line
\* gives exactly n records with pairwise disjoint spans that together cover
\* every non-blank line.
C18_AscendingCovers ==
    (FullDone /\ AscendingFromFirstLine) =>
        /\ Len(seg.questions) = Cardinality(Matched)
        /\ \A k \in 0..Len(seg.lines) - 1 :
              /\ Cardinality(Covering(k)) <= 1
              /\ seg.lines[k + 1].form # "blank" => Covering(k) # {}

\* "1. a\n\nbody\n3. c": two markers, a blank line and a body line
C18_Witness ==
    /\ FullDone
    /\ seg.lines = <<Line("dot", 1, 4), Line("blank", 0, 0), Line("plain", 0, 3),
                     Line("dot", 3, 4)>>
    /\ Len(seg.questions) = 2
    /\ seg.questions[1].end_line = 2

\* C19: every record of every parser has a text of at least 20 characters.
C19_MinimumLength ==
    seg.pc = "done" =>
        \A i \in 1..Len(seg.questions) : seg.questions[i].text_len >= MinQuestionText

\* the length of the paragraph that starts at line k
RECURSIVE ParagraphLen(_)
ParagraphLen(k) ==
    IF k >= Len(seg.lines) \/ seg.lines[k + 1].form = "blank" THEN 0
    ELSE seg.lines[k + 1].len +
         (IF k + 1 < Len(seg.lines) /\ seg.lines[k + 2].form # "blank"
          THEN 1 + ParagraphLen(k + 1) ELSE 0)

\* first lines of the paragraphs above the length floor
LongParagraphs ==
    {k \in 0..Len(seg.lines) - 1 :
        /\ seg.lines[k + 1].form # "blank"
        /\ k > 0 => seg.lines[k].form = "blank"
        /\ ParagraphLen(k) > MinQuestionText}

\* C20: when no line matches a boundary pattern, segmentation returns one unit
\* per paragraph above the length floor, so a text with a long paragraph and
\* no markers gives a non-empty result.
C20_ParagraphFallback ==
    (FullDone /\ Matched = {}) =>
        /\ Len(seg.questions) = Cardinality(LongParagraphs)
        /\ LongParagraphs # {} => seg.questions # <<>>

StoreIdle ==
    /\ embedding_model = FALSE
    /\ index = NoIndex
    /\ documents = <<>>
    /\ metadata = <<>>
    /\ disk = NoDisk
    /\ clock = 0
    /\ last = [op |-> "init", arg |-> "", ret |-> ""]



GenIdle == gen = NoGen

Init == StoreInit /\ SelIdle /\ ValInit /\ GenIdle /\ SegIdle
Next == StoreNext
Spec == Init /\ [][Next]_vars

SelSpecInit == SelInit /\ StoreIdle /\ ValInit /\ GenIdle /\ SegIdle
SelSpecNext == SelNext
SelSpec == SelSpecInit /\ [][SelSpecNext]_vars

ValSpecInit == ValInit /\ StoreIdle /\ SelIdle /\ GenIdle /\ SegIdle
ValSpecNext == ValNext
ValSpec == ValSpecInit /\ [][ValSpecNext]_vars

GenSpecInit == GenInit /\ StoreIdle /\ SelIdle /\ ValInit /\ SegIdle
GenSpecNext == GenNext
GenSpec == GenSpecInit /\ [][GenSpecNext]_vars

\* C28: the records of _extract_questions_from_text are in strictly ascending
\* number order whatever the order of their markers in the text, and every
\* number is in 1..999 and is the number written on the record's first line,
\* which a boundary pattern matches.
C28_AscendingInRange ==
    FullDone =>
        /\ \A i, j \in 1..Len(seg.questions) :
              i < j => seg.questions[i].number < seg.questions[j].number
        /\ \A i \in 1..Len(seg.questions) :
              LET line == seg.lines[seg.questions[i].start_line + 1] IN
              /\ seg.questions[i].number \in 1..MaxFullNumber
              /\ line.form \in {"dot", "paren"}
              /\ line.num = seg.questions[i].number

\* a text with a marker "0." and two records whose markers appear in the
\* opposite order of their numbers
C28_Witness ==
    /\ FullDone
    /\ \E k \in 1..Len(seg.lines) : seg.lines[k].form = "dot" /\ seg.lines[k].num = 0
    /\ \E i, j \in 1..Len(seg.questions) :
          /\ i < j
          /\ seg.questions[i].start_line > seg.questions[j].start_line

SegSpecInit == SegInit /\ StoreIdle /\ SelIdle /\ ValInit /\ GenIdle
SegSpecNext == SegNext
SegSpec == SegSpecInit /\ [][SegSpecNext]_vars

SerialSpecInit == StoreInit /\ SelIdle /\ ValInit /\ GenIdle /\ SegIdle
SerialSpecNext == SerialNext
SerialSpec == SerialSpecInit /\ [][SerialSpecNext]_vars

DirSpecInit == StoreInit /\ SelIdle /\ ValInit /\ GenIdle /\ SegIdle
DirSpecNext == DirNext
DirSpec == DirSpecInit /\ [][DirSpecNext]_vars

UploadSpecInit == StoreIdle /\ SelIdle /\ ValInit /\ GenIdle /\ SegIdle
UploadSpecNext == UploadNext
UploadSpec == UploadSpecInit /\ [][UploadSpecNext]_vars

HistSpecInit == HistInit /\ StoreIdle /\ ValInit /\ GenInit /\ SegIdle
HistSpecNext == HistNext
HistSpec == HistSpecInit /\ [][HistSpecNext]_vars

ConcSpecInit == ConcInit /\ StoreIdle /\ ValInit /\ GenIdle /\ SegIdle
ConcSpecNext == ConcNext
ConcSpec == ConcSpecInit /\ [][ConcSpecNext]_vars

ChkSpecInit == ChkInit /\ StoreIdle /\ SelIdle /\ ValInit /\ GenIdle
ChkSpecNext == ChkNext
ChkSpec == ChkSpecInit /\ [][ChkSpecNext]_vars

====
